---- MODULE Spec2Model ----
(***************************************************************************)
(* Model of the research-job controller (backend/src/agent/controller.js), *)
(* its agents (agents.js), the job-state classes (memory.js) and the       *)
(* routing of the hybrid LLM (llm.js).  One job is followed from createJob *)
(* through the Plan -> Execute -> Verify loop of runJob.  Every action is  *)
(* one block of runJob; the blocks are cut at the places where runJob      *)
(* waits for a backend, a tool or a timer, and additionally before every   *)
(* assignment to job.status, so that each status change is one step.       *)
(* A log message is kept as its template and the values put in it; the     *)
(* timestamp of a log entry is left out.  The request handlers of          *)
(* server.js (job creation, event stream) are actions of ServerSpec, which *)
(* runs the same runJob blocks on a smaller set of backend results.        *)
(***************************************************************************)
EXTENDS Integers, Sequences, FiniteSets, TLC

\* ---------------------------------------------------------------- bounds
\* longest plan the planner backend returns in the model
MaxSteps == 2

\* most event streams opened on the job
MaxSubs == 1

\* most concurrent callers of a backend
MaxCallers == 2

\* how long the clock runs after the first request, in units of 500 ms
MaxTime == 3

\* ------------------------------------------------------ program constants
\* Controller.config.maxRetries
maxRetries == 2

\* ------------------------------------------------------------ JS values
\* JavaScript null / undefined of a string-valued field
NULL == "<null>"

\* JavaScript falsiness of a nullable string
Falsy(s) == s = NULL \/ s = ""

\* a nullable object is a sequence of length 0 (null) or 1
None == <<>>
Some(x) == <<x>>

\* what an awaited call produced: a value, or a thrown error
Ok(v) == [threw |-> FALSE, error |-> NULL, val |-> v]
Throw(m, v) == [threw |-> TRUE, error |-> m, val |-> v]

TypeErrorNull == "TypeError: Cannot read properties of null"
TypeErrorMap == "TypeError: steps.map is not a function"

\* ------------------------------------------------------------ inputs
\* what uuidv4() returns for the job
Uuids == {"uuid-1"}

Topics == {"electric vehicle battery recycling", "solid state batteries"}

\* what uuidv4() returns for the jobs of the registry of several jobs
JobIds == {"uuid-1", "uuid-2"}

\* message of the error a backend call ends with (a provider failure and a
\* JSON.parse failure both come back as {error: message})
ErrorMsgs == {"429 rate limit exceeded"}

\* what a tool or a text generation returns for one step
ToolTexts == {"Title: A", "Search unavailable."}

\* (tool, params) of the steps the planner backend returns
StepShapes ==
    { [tool |-> "web_search", params |-> "q"],
      [tool |-> "web_search", params |-> NULL],
      [tool |-> "summarize", params |-> "q"] }

\* the steps arrays of the planner backend: step i carries step_id i
StepArrays ==
    UNION { { [i \in 1..n |-> [step_id |-> i, tool |-> sh[i].tool, params |-> sh[i].params]] :
                sh \in [1..n -> StepShapes] } : n \in 0..MaxSteps }

\* results of groq.generateJson for the planning prompt
PlanJson(err, isArr, st) ==
    [isNull |-> FALSE, error |-> err, reasoning |-> "r", stepsIsArray |-> isArr, steps |-> st]

PlanResults ==
    { PlanJson(NULL, TRUE, st) : st \in StepArrays }
    \cup { PlanJson(e, TRUE, <<>>) : e \in ErrorMsgs }
    \cup { PlanJson(NULL, FALSE, <<>>) }
    \cup { [PlanJson(NULL, TRUE, <<>>) EXCEPT !.isNull = TRUE] }

\* results of generateJson for the verification prompt
VerJson(err, st, q, fb, rep) ==
    [isNull |-> FALSE, error |-> err, status |-> st, quality_score |-> q,
     feedback |-> fb, final_report |-> rep]

VerifyResults ==
    { VerJson(NULL, "pass", 75, NULL, "# Report"),
      VerJson(NULL, "fail", 40, "needs sources", NULL),
      VerJson(NULL, "fail", 0, NULL, NULL),
      [VerJson(NULL, NULL, 0, NULL, NULL) EXCEPT !.isNull = TRUE] }
    \cup { VerJson(e, NULL, 0, NULL, NULL) : e \in ErrorMsgs }

\* results of generateText for the report prompt (Groq's is never empty:
\* it returns "No response" in place of an empty completion)
ErrorTexts == { "Error: 429 rate limit exceeded", "Error: Max retries exceeded" }
ReportTexts == { "# Executive Summary", "" } \cup ErrorTexts

\* String.prototype.startsWith("Error:") on the texts of the model
StartsWithError(t) == t \in ErrorTexts \cup {"Error: fetch failed"}

\* ------------------------------------------------------------ memory.js
Step(s) ==
    [step_id |-> s.step_id, tool |-> s.tool, params |-> s.params,
     status |-> "pending", result |-> NULL]

Plan(data) ==
    [reasoning |-> data.reasoning, steps |-> [i \in DOMAIN data.steps |-> Step(data.steps[i])]]

LogEntry(message, level) == [message |-> message, level |-> level]

\* the text of a log message: which template, and the values put in it
Msg(kind, n, text) == [kind |-> kind, n |-> n, text |-> text]

\* ------------------------------------------------------------ llm.js
\* LLM.plan: served by Groq alone
LLMplan(groqRes) == groqRes

\* LLM.execute: served by Groq alone
LLMexecute(groqText) == groqText

\* LLM.verify: Gemini first when configured, Groq when Gemini's result
\* carries an error; reading .error of a JSON null throws
LLMverify(available, gem, grq) ==
    IF available
    THEN IF gem.isNull THEN Throw(TypeErrorNull, gem)
         ELSE IF Falsy(gem.error) THEN Ok(gem) ELSE Ok(grq)
    ELSE Ok(grq)

\* LLM.synthesize: Gemini first when configured, Groq when Gemini's text
\* starts with "Error:"
LLMsynthesize(available, gemText, grqText) ==
    IF available /\ ~StartsWithError(gemText) THEN gemText ELSE grqText

\* the default of the retries parameter of generateJson and generateText
retries == 3

Backends == {"groq", "gemini"}

\* minDelay of GroqLLM (1500 ms) and GeminiLLM (2000 ms), in units of 500 ms
minDelay == [groq |-> 3, gemini |-> 4]

\* the concurrent callers of the backends (the runs of different jobs)
Callers == 1..MaxCallers

\* Date.now() when the first request is made: later than any minDelay
\* after the initial lastRequestTime of 0
StartTime == 4

\* a caller that is not inside throttle()
NotInThrottle == [backend |-> "none", wake |-> 0]

\* the errors a provider request ends with: a rate limit, and any other
ProviderErrors ==
    { [status |-> 429, message |-> "429 rate limit exceeded"],
      [status |-> 500, message |-> "fetch failed"] }

\* `Error: ${error.message}`
ErrorText(m) == IF m = "fetch failed" THEN "Error: fetch failed" ELSE "Error: 429 rate limit exceeded"

\* the test of the catch block: error.status === 429 in GroqLLM,
\* error.message?.includes('429') in GeminiLLM
IsRateLimit(backend, err) ==
    IF backend = "groq" THEN err.status = 429
    ELSE err.message \in {"429 rate limit exceeded"}

\* what generateJson ("json") or generateText ("text") returns
Value(kind, json, text) == [kind |-> kind, json |-> json, text |-> text]
NoJson == VerJson(NULL, NULL, 0, NULL, NULL)
NoValue == Value("none", NoJson, NULL)

\* the return of the catch block: {error: message} or the error text
ErrorValue(kind, m) ==
    IF kind = "json" THEN Value("json", VerJson(m, NULL, 0, NULL, NULL), NULL)
    ELSE Value("text", NoJson, ErrorText(m))

\* what the provider answers when the request succeeds
ProviderValues(kind) ==
    IF kind = "json"
    THEN { Value("json", j, NULL) : j \in { v \in VerifyResults : v.isNull \/ v.error = NULL } }
    ELSE { Value("text", NoJson, t) : t \in {"# Executive Summary"} }

\* how a provider request ends
ProviderOk(v) == [ok |-> TRUE, val |-> v, err |-> [status |-> 200, message |-> NULL]]
ProviderFail(err) == [ok |-> FALSE, val |-> NoValue, err |-> err]
ProviderOutcomes(kind) ==
    { ProviderOk(v) : v \in ProviderValues(kind) } \cup { ProviderFail(e) : e \in ProviderErrors }

\* the router's test of a Gemini result: result.error, or
\* result.startsWith("Error:")
IsErrorValue(v) ==
    IF v.kind = "json" THEN ~Falsy(v.json.error) ELSE StartsWithError(v.text)

\* ------------------------------------------------------------ agents.js
EmptyPlan == Plan(PlanJson(NULL, TRUE, <<>>))

\* createPlan without the check of data.error
createPlan_noErrorCheck(data) ==
    IF data.isNull THEN Throw(TypeErrorNull, EmptyPlan)
    ELSE IF ~data.stepsIsArray THEN Throw(TypeErrorMap, EmptyPlan)
    ELSE Ok(Plan(data))

\* PlannerAgent.createPlan, from the result of llm.plan
createPlan(data) ==
    IF data.isNull THEN Throw(TypeErrorNull, EmptyPlan)
    ELSE IF ~Falsy(data.error) THEN Throw(data.error, EmptyPlan)
    ELSE IF ~data.stepsIsArray THEN Throw(TypeErrorMap, EmptyPlan)
    ELSE Ok(Plan(data))

\* the text of the feedback line of the planning prompt
FeedbackLine(fb) == IF Falsy(fb) THEN "None" ELSE fb

\* the tools of SearchTools that executeStep calls for a step
CallsTool(step) == step.tool \in {"web_search", "scrape_url"} /\ step.params # NULL

\* ExecutorAgent.executeStep, from the text the tool returns and the text
\* the backend returns: a search result is the step's result; a scraped
\* page goes into the extraction prompt, whose answer is the result
executeStep(step, toolText, llmText) ==
    IF step.tool = "web_search"
    THEN IF step.params = NULL THEN Throw(TypeErrorNull, "") ELSE Ok(toolText)
    ELSE IF step.tool = "scrape_url"
    THEN IF step.params = NULL THEN Throw(TypeErrorNull, "") ELSE Ok(LLMexecute(llmText))
    ELSE IF step.tool \in {"analyze_content", "deep_analyze"}
    THEN Ok(LLMexecute(llmText))
    ELSE Ok("Unknown tool")

GenericFeedback == "Research needs more specific data."

\* verify handing on the backend's result as it came
verify_noGenericFeedback(routed) ==
    IF routed.threw THEN routed
    ELSE IF routed.val.isNull THEN Throw(TypeErrorNull, routed.val)
    ELSE Ok(routed.val)

\* VerifierAgent.verify, from the outcome of llm.verify
verify(routed) ==
    IF routed.threw THEN routed
    ELSE IF routed.val.isNull THEN Throw(TypeErrorNull, routed.val)
    ELSE IF routed.val.status # "pass" /\ Falsy(routed.val.feedback)
    THEN Ok([routed.val EXCEPT !.feedback = GenericFeedback])
    ELSE Ok(routed.val)

\* generate throwing on an error text instead of returning it
generate_throws(available, gemText, grqText) ==
    LET t == LLMsynthesize(available, gemText, grqText) IN
      IF StartsWithError(t) THEN Throw(t, t) ELSE Ok(t)

\* ReportGenerator.generate: the text of llm.synthesize, whatever it is
generate(available, gemText, grqText) == Ok(LLMsynthesize(available, gemText, grqText))

\* ------------------------------------------------------------ state
VARIABLES
    pc,              \* where runJob stands ("idle": createJob not yet called)
    topic,           \* job.topic
    status,          \* job.status
    plan,            \* job.plan (None or Some(Plan)); runJob's plan is the same object
    logs,            \* job.logs
    final_report,    \* job.final_report
    attempt,         \* runJob's attempt
    feedback,        \* runJob's feedback
    findings,        \* runJob's findings: sequence of [k, v] in insertion order
    lastFindings,    \* runJob's lastFindings (None or Some(findings))
    stepIdx,         \* position of the for-of loop over plan.steps
    geminiAvailable, \* llm.gemini.available
    calls,           \* the agent calls runJob has made, in order
    rets,            \* what the agent calls returned, in order
    jobId,           \* the key of the job in controller.jobs (NULL: no job)
    subs,            \* eventSubscribers[jobId]: what was written to each response
    trace,           \* the changes of logs, status and final_report and the
                     \* calls of notifySubscribers, in the order of execution
    response,        \* the answer of the last request handler that ran
    rop,             \* the operation of the router (LLM) that is running, or "none"
    rpc,             \* the backend the router is waiting for, or "idle" / "done"
    genI,            \* the loop index i of the backend call that is running
    genLog,          \* the backend calls of the operation, with their provider requests
    rresult,         \* what the operation returned or threw
    clock,           \* Date.now(), in units of 500 ms
    lastRequestTime, \* lastRequestTime of each backend
    sleepers,        \* for each caller inside throttle(): the backend and when its timer is due
    issued,          \* the provider requests issued: backend, time and caller
    jobs,            \* controller.jobs of the registry of several jobs
    eventSubscribers, \* controller.eventSubscribers of that registry
    actor,           \* the job on whose behalf the last step of the registry was taken
    keys,            \* which API keys process.env holds during the call of webSearch
    spc,             \* where webSearch stands: "idle", a provider, "ddg" or "done"
    ddgAttempt,      \* the loop index attempt of duckDuckGoSearch
    tried,           \* the provider requests of the call, with what came of each
    sresult          \* what webSearch returned (None: nothing yet)

\* the job and its subscribers
jobVars == <<pc, topic, status, plan, logs, final_report, attempt, feedback,
             findings, lastFindings, stepIdx, calls, rets, jobId, subs, trace, response>>

\* one operation of the router
routerVars == <<rop, rpc, genI, genLog, rresult>>

\* the throttle of the backends
throttleVars == <<clock, lastRequestTime, sleepers, issued>>

\* the registry of several jobs
registryVars == <<jobs, eventSubscribers, actor>>

\* one call of webSearch
searchVars == <<keys, spc, ddgAttempt, tried, sresult>>

layerVars == <<routerVars, throttleVars, registryVars, searchVars>>

vars == <<jobVars, geminiAvailable, layerVars>>

\* Controller.log
log(lg, message, level) == Append(lg, LogEntry(message, level))

\* findings[k] = v on an object that keeps insertion order
Put(f, k, v) ==
    IF \E i \in DOMAIN f : f[i].k = k
    THEN [i \in DOMAIN f |-> IF f[i].k = k THEN [k |-> k, v |-> v] ELSE f[i]]
    ELSE Append(f, [k |-> k, v |-> v])

\* a call of an agent: the attempt it belongs to and its arguments (the
\* feedback of createPlan, the findings of executeStep, verify and generate)
Call(agent, att, fb, f) == [agent |-> agent, attempt |-> att, feedback |-> fb, findings |-> f]

\* the end of a call of an agent: the error field of the backend result the
\* agent was given (for the executor, the text of the tool it called), and
\* what the agent returned or threw
Ret(agent, att, backend, st, fb, rep, err) ==
    [agent |-> agent, attempt |-> att, backend |-> backend, status |-> st,
     feedback |-> fb, report |-> rep, error |-> err]

\* the payload of notifySubscribers: the event name, and as data a log
\* entry ("log"), {status} ("status") or {report} ("result")
NoEntry == LogEntry(Msg("", 0, NULL), NULL)
LogEv(entry) == [event |-> "log", entry |-> entry, text |-> NULL]
StatusEv(st) == [event |-> "status", entry |-> NoEntry, text |-> st]
ResultEv(rep) == [event |-> "result", entry |-> NoEntry, text |-> rep]

\* an entry of trace: a change applied to the job, or an event handed to
\* notifySubscribers
Mut(ev) == [kind |-> "mut", ev |-> ev]
Pub(ev) == [kind |-> "pub", ev |-> ev]
IsPub(item) == item.kind = "pub"
IsMut(item) == item.kind = "mut"
Events(items) == [i \in DOMAIN items |-> items[i].ev]
Pubs(items) == Events(SelectSeq(items, IsPub))
Muts(items) == Events(SelectSeq(items, IsMut))

\* Controller.log notifying the subscribers before it pushes the entry
LogItems_notifyFirst(entries) ==
    [k \in 1..(2 * Len(entries)) |->
        IF k % 2 = 1 THEN Pub(LogEv(entries[(k + 1) \div 2])) ELSE Mut(LogEv(entries[k \div 2]))]

\* Controller.log on each of entries: push, then notifySubscribers
LogItems(entries) ==
    [k \in 1..(2 * Len(entries)) |->
        IF k % 2 = 1 THEN Mut(LogEv(entries[(k + 1) \div 2])) ELSE Pub(LogEv(entries[k \div 2]))]

\* job.status = st followed by notifySubscribers(jobId, 'status', ...)
StatusItems(st) == <<Mut(StatusEv(st)), Pub(StatusEv(st))>>

\* Controller.notifySubscribers: the payload is written to every response
\* of the job's list
\* a response object in eventSubscribers[jobId]: what has been sent over
\* it, how much of that the handler wrote itself, how many events had
\* been published before, whether its connection is closed, and how many
\* events notifySubscribers has passed to its write.  The keep-alive
\* comments are left out.
Subscriber(replay, published) ==
    [stream |-> replay, replayed |-> Len(replay), publishedBefore |-> published,
     closed |-> FALSE, handed |-> 0]

\* res.write sending the events over a connection that is closed
write_toClosed(res, evs) == [res EXCEPT !.stream = @ \o evs, !.handed = @ + Len(evs)]

\* res.write(payload) for each of the events: they are sent over an open
\* connection; a response whose connection is closed drops them
write(res, evs) ==
    IF res.closed
    THEN [res EXCEPT !.handed = @ + Len(evs)]
    ELSE [res EXCEPT !.stream = @ \o evs, !.handed = @ + Len(evs)]

notifySubscribers(sb, evs) == [i \in DOMAIN sb |-> write(sb[i], evs)]

\* what one block of runJob applies and publishes, in the order of its
\* code: its first nBefore log calls, then middle, then its other log calls
Emit(nBefore, middle) ==
    LET new == SubSeq(logs', Len(logs) + 1, Len(logs'))
        items == LogItems(SubSeq(new, 1, nBefore)) \o middle
                   \o LogItems(SubSeq(new, nBefore + 1, Len(new))) IN
      /\ trace' = trace \o items
      /\ subs' = notifySubscribers(subs, Pubs(items))

\* a request and its answer: the route, the topic or job id of the request,
\* the status code, and the job_id of the body (the rest of the body is
\* read off the job and left out)
Response(route, req, code, job_id) ==
    [route |-> route, req |-> req, code |-> code, job_id |-> job_id]

\* the places where runJob is suspended in an await (or has ended): only
\* there can a request handler run and read the job
Suspended == pc \in {"L84", "L88", "L101", "L107", "L118", "L120", "L123", "L147", "done"}

Init ==
    /\ pc = "idle"
    /\ topic = NULL
    /\ status = NULL
    /\ plan = None
    /\ logs = <<>>
    /\ final_report = NULL
    /\ attempt = 0
    /\ feedback = NULL
    /\ findings = <<>>
    /\ lastFindings = None
    /\ stepIdx = 0
    /\ geminiAvailable \in BOOLEAN
    /\ calls = <<>>
    /\ rets = <<>>
    /\ jobId = NULL
    /\ subs = <<>>
    /\ trace = <<>>
    /\ response = Response(NULL, NULL, 0, NULL)
    /\ rop = "none"
    /\ rpc = "idle"
    /\ genI = 0
    /\ genLog = <<>>
    /\ rresult = Ok(NoValue)
    /\ clock = StartTime
    /\ lastRequestTime = [b \in Backends |-> 0]
    /\ sleepers = [c \in Callers |-> NotInThrottle]
    /\ issued = <<>>
    /\ jobs = [id \in JobIds |-> None]
    /\ eventSubscribers = [id \in JobIds |-> None]
    /\ actor = NULL
    /\ keys = [p \in {"Serper", "Tavily", "Brave"} |-> FALSE]
    /\ spc = "idle"
    /\ ddgAttempt = 0
    /\ tried = <<>>
    /\ sresult = None

\* ------------------------------------------------------------ runJob
\* the loop guard written attempt <= maxRetries
LoopHead_offByOne(att, lg) ==
    IF att <= maxRetries
    THEN [pc |-> "L84", attempt |-> att + 1,
          logs |-> log(lg, Msg("Attempt", att + 1, NULL), "info")]
    ELSE [pc |-> "L144", attempt |-> att, logs |-> lg]

\* the loop head starting each attempt after the first on an emptied log
LoopHead_resetLog(att, lg) ==
    IF att < maxRetries
    THEN [pc |-> "L84", attempt |-> att + 1,
          logs |-> log(IF att = 0 THEN lg ELSE <<>>, Msg("Attempt", att + 1, NULL), "info")]
    ELSE [pc |-> "L144", attempt |-> att, logs |-> lg]

\* head of the while loop: the guard, attempt++ and the first log
LoopHead(att, lg) ==
    IF att < maxRetries
    THEN [pc |-> "L84", attempt |-> att + 1,
          logs |-> log(lg, Msg("Attempt", att + 1, NULL), "info")]
    ELSE [pc |-> "L144", attempt |-> att, logs |-> lg]

\* the catch block logging the error at level info
Catch_infoLevel(err, lg) ==
    /\ status' = "failed"
    /\ logs' = log(lg, Msg("Error", 0, err), "info")
    /\ pc' = "done"
    /\ Emit(Len(lg) - Len(logs), StatusItems("failed"))

\* the catch block of runJob, entered with the log as it stands at the throw
Catch(err, lg) ==
    /\ status' = "failed"
    /\ logs' = log(lg, Msg("Error", 0, err), "error")
    /\ pc' = "done"
    /\ Emit(Len(lg) - Len(logs), StatusItems("failed"))

\* createJob running runJob up to the call of the planner before it returns
CreateJob_startsPlanning(t) ==
    /\ pc = "idle"
    /\ topic' = t
    /\ status' = "planning"
    /\ plan' = None
    /\ final_report' = NULL
    /\ feedback' = NULL
    /\ lastFindings' = None
    /\ jobId' \in Uuids
    /\ attempt' = 1
    /\ logs' = log(log(<<>>, Msg("Attempt", 1, NULL), "info"), Msg("Planning", 0, NULL), "info")
    /\ calls' = <<Call("planner", 1, NULL, <<>>)>>
    /\ pc' = "L88"
    /\ Emit(1, StatusItems("planning"))
    /\ UNCHANGED <<findings, stepIdx, geminiAvailable, layerVars, rets>>

\* Controller.getJob: the job stored under the id, if any
getJob(id) ==
    IF jobId # NULL /\ id = jobId
    THEN Some([topic |-> topic, status |-> status, plan |-> plan, final_report |-> final_report])
    ELSE None

\* Controller.createJob: new JobState, then runJob up to its first await
CreateJob(t) ==
    /\ pc = "idle"
    /\ topic' = t
    /\ status' = "queued"
    /\ plan' = None
    /\ final_report' = NULL
    /\ feedback' = NULL
    /\ lastFindings' = None
    /\ jobId' \in Uuids
    /\ LET h == LoopHead(0, <<>>) IN
         /\ pc' = h.pc
         /\ attempt' = h.attempt
         /\ logs' = h.logs
    /\ Emit(0, <<>>)
    /\ UNCHANGED <<findings, stepIdx, geminiAvailable, layerVars, calls, rets>>

\* lines 84-88: status planning, the planner is called
BeginPlanning ==
    /\ pc = "L84"
    /\ status' = "planning"
    /\ logs' = log(logs, Msg("Planning", 0, NULL), "info")
    /\ calls' = Append(calls, Call("planner", attempt, feedback, <<>>))
    /\ pc' = "L88"
    /\ Emit(0, StatusItems("planning"))
    /\ UNCHANGED <<topic, plan, final_report, attempt, feedback, findings,
                   lastFindings, stepIdx, geminiAvailable, layerVars, jobId, response, rets>>

\* lines 88-90 with job.plan emptied when createPlan throws
PlannerReturn_clearsPlan(data) ==
    /\ pc = "L88"
    /\ LET r == createPlan(LLMplan(data)) IN
         IF r.threw
         THEN /\ Catch(r.error, logs)
              /\ rets' = Append(rets, Ret("planner", attempt, data.error, "throw", NULL, NULL, r.error))
              /\ plan' = Some(EmptyPlan)
         ELSE /\ plan' = Some(r.val)
              /\ logs' = log(logs, Msg("StepsPlanned", Len(r.val.steps), NULL), "info")
              /\ rets' = Append(rets, Ret("planner", attempt, data.error, "plan", NULL, NULL, NULL))
              /\ pc' = "L93"
              /\ Emit(0, <<>>)
              /\ UNCHANGED status
    /\ UNCHANGED <<topic, final_report, attempt, feedback, findings,
                   lastFindings, stepIdx, geminiAvailable, layerVars, jobId, response, calls>>

\* lines 88-90: createPlan returns the plan or throws
PlannerReturn(data) ==
    /\ pc = "L88"
    /\ LET r == createPlan(LLMplan(data)) IN
         IF r.threw
         THEN /\ Catch(r.error, logs)
              /\ rets' = Append(rets, Ret("planner", attempt, data.error, "throw", NULL, NULL, r.error))
              /\ UNCHANGED plan
         ELSE /\ plan' = Some(r.val)
              /\ logs' = log(logs, Msg("StepsPlanned", Len(r.val.steps), NULL), "info")
              /\ rets' = Append(rets, Ret("planner", attempt, data.error, "plan", NULL, NULL, NULL))
              /\ pc' = "L93"
              /\ Emit(0, <<>>)
              /\ UNCHANGED status
    /\ UNCHANGED <<topic, final_report, attempt, feedback, findings,
                   lastFindings, stepIdx, geminiAvailable, layerVars, jobId, response, calls>>

\* lastFindings assigned only after a loop that ran at least once
EnterStep_emptyLeavesNull(i, f) ==
    IF i <= Len(plan[1].steps)
    THEN /\ plan' = Some([plan[1] EXCEPT !.steps[i].status = "active"])
         /\ logs' = log(logs, Msg("Step", i, NULL), "info")
         /\ calls' = Append(calls, Call("executor", attempt, NULL, f))
         /\ stepIdx' = i
         /\ pc' = "L101"
         /\ UNCHANGED lastFindings
    ELSE /\ lastFindings' = IF f = <<>> THEN lastFindings ELSE Some(f)
         /\ pc' = "L113"
         /\ UNCHANGED <<plan, logs, calls, stepIdx>>

\* the for-of loop left after its first turn
EnterStep_stopsAfterFirst(i, f) ==
    IF i <= Len(plan[1].steps) /\ i <= 1
    THEN /\ plan' = Some([plan[1] EXCEPT !.steps[i].status = "active"])
         /\ logs' = log(logs, Msg("Step", i, NULL), "info")
         /\ calls' = Append(calls, Call("executor", attempt, NULL, f))
         /\ stepIdx' = i
         /\ pc' = "L101"
         /\ UNCHANGED lastFindings
    ELSE /\ lastFindings' = Some(f)
         /\ pc' = "L113"
         /\ UNCHANGED <<plan, logs, calls, stepIdx>>

\* one turn of the for-of loop over plan.steps, entered at step i with the
\* findings f: the step becomes active and the executor is called, or the
\* loop ends and lastFindings is set (lines 97-101, 110)
EnterStep(i, f) ==
    IF i <= Len(plan[1].steps)
    THEN /\ plan' = Some([plan[1] EXCEPT !.steps[i].status = "active"])
         /\ logs' = log(logs, Msg("Step", i, NULL), "info")
         /\ calls' = Append(calls, Call("executor", attempt, NULL, f))
         /\ stepIdx' = i
         /\ pc' = "L101"
         /\ UNCHANGED lastFindings
    ELSE /\ lastFindings' = Some(f)
         /\ pc' = "L113"
         /\ UNCHANGED <<plan, logs, calls, stepIdx>>

\* lines 93-101 without findings = {}
BeginExecuting_keepFindings ==
    /\ pc = "L93"
    /\ status' = "executing"
    /\ EnterStep(1, findings)
    /\ Emit(0, StatusItems("executing"))
    /\ UNCHANGED <<topic, final_report, attempt, feedback, findings, geminiAvailable, layerVars,
                   jobId, response, rets>>

\* lines 93-101: status executing, findings reset, first step started
BeginExecuting ==
    /\ pc = "L93"
    /\ status' = "executing"
    /\ findings' = <<>>
    /\ EnterStep(1, <<>>)
    /\ Emit(0, StatusItems("executing"))
    /\ UNCHANGED <<topic, final_report, attempt, feedback, geminiAvailable, layerVars, jobId, response, rets>>

\* lines 101-107 without step.status = "completed"
ExecutorReturn_staysActive(toolText, llmText) ==
    /\ pc = "L101"
    /\ LET step == plan[1].steps[stepIdx]
           r == executeStep(step, toolText, llmText)
           given == IF CallsTool(step) THEN toolText ELSE NULL IN
         IF r.threw
         THEN /\ Catch(r.error, logs)
              /\ rets' = Append(rets, Ret("executor", attempt, NULL, "throw", NULL, NULL, r.error))
              /\ UNCHANGED <<plan, findings>>
         ELSE /\ plan' = Some([plan[1] EXCEPT !.steps[stepIdx].result = r.val])
              /\ findings' = Put(findings, step.step_id, r.val)
              /\ logs' = log(logs, Msg("Done", stepIdx, NULL), "info")
              /\ rets' = Append(rets, Ret("executor", attempt, given, "result", NULL, r.val, NULL))
              /\ pc' = "L107"
              /\ Emit(0, <<>>)
              /\ UNCHANGED status
    /\ UNCHANGED <<topic, final_report, attempt, feedback, lastFindings,
                   stepIdx, geminiAvailable, layerVars, jobId, response, calls>>

\* lines 101-107: executeStep returns the result or throws
ExecutorReturn(toolText, llmText) ==
    /\ pc = "L101"
    /\ LET step == plan[1].steps[stepIdx]
           r == executeStep(step, toolText, llmText)
           given == IF CallsTool(step) THEN toolText ELSE NULL IN
         IF r.threw
         THEN /\ Catch(r.error, logs)
              /\ rets' = Append(rets, Ret("executor", attempt, NULL, "throw", NULL, NULL, r.error))
              /\ UNCHANGED <<plan, findings>>
         ELSE /\ plan' = Some([plan[1] EXCEPT !.steps[stepIdx].result = r.val,
                                              !.steps[stepIdx].status = "completed"])
              /\ findings' = Put(findings, step.step_id, r.val)
              /\ logs' = log(logs, Msg("Done", stepIdx, NULL), "info")
              /\ rets' = Append(rets, Ret("executor", attempt, given, "result", NULL, r.val, NULL))
              /\ pc' = "L107"
              /\ Emit(0, <<>>)
              /\ UNCHANGED status
    /\ UNCHANGED <<topic, final_report, attempt, feedback, lastFindings,
                   stepIdx, geminiAvailable, layerVars, jobId, response, calls>>

\* line 107 has elapsed: the next step, or the end of the loop
StepDelayDone ==
    /\ pc = "L107"
    /\ EnterStep(stepIdx + 1, findings)
    /\ Emit(0, <<>>)
    /\ UNCHANGED <<topic, status, final_report, attempt, feedback, findings,
                   geminiAvailable, layerVars, jobId, response, rets>>

\* lines 113-118 without the assignment to job.status
BeginVerifying_noStatus ==
    /\ pc = "L113"
    /\ logs' = log(log(log(logs, Msg("Separator", 0, NULL), "info"),
                           Msg("VerifyStart", 0, NULL), "info"),
                           Msg("Analyzing", 0, NULL), "info")
    /\ pc' = "L118"
    /\ Emit(0, <<>>)
    /\ UNCHANGED <<topic, status, plan, final_report, attempt, feedback, findings,
                   lastFindings, stepIdx, geminiAvailable, layerVars, jobId, response, calls, rets>>

\* lines 113-118: status verifying
BeginVerifying ==
    /\ pc = "L113"
    /\ status' = "verifying"
    /\ logs' = log(log(log(logs, Msg("Separator", 0, NULL), "info"),
                           Msg("VerifyStart", 0, NULL), "info"),
                           Msg("Analyzing", 0, NULL), "info")
    /\ pc' = "L118"
    /\ Emit(0, StatusItems("verifying"))
    /\ UNCHANGED <<topic, plan, final_report, attempt, feedback, findings,
                   lastFindings, stepIdx, geminiAvailable, layerVars, jobId, response, calls, rets>>

\* line 118 has elapsed
Timer500 ==
    /\ pc = "L118"
    /\ logs' = log(logs, Msg("CrossRef", 0, NULL), "info")
    /\ pc' = "L120"
    /\ Emit(0, <<>>)
    /\ UNCHANGED <<topic, status, plan, final_report, attempt, feedback, findings,
                   lastFindings, stepIdx, geminiAvailable, layerVars, jobId, response, calls, rets>>

\* line 120 has elapsed: the verifier is called
Timer300 ==
    /\ pc = "L120"
    /\ logs' = log(logs, Msg("Generating", 0, NULL), "info")
    /\ calls' = Append(calls, Call("verifier", attempt, NULL, findings))
    /\ pc' = "L123"
    /\ Emit(0, <<>>)
    /\ UNCHANGED <<topic, status, plan, final_report, attempt, feedback, findings,
                   lastFindings, stepIdx, geminiAvailable, layerVars, jobId, response, rets>>

\* lines 130-137 reading a field the verification does not have
OnPass_wrongField(v, lg) ==
    /\ status' = "completed"
    /\ final_report' = NULL
    /\ logs' = log(lg, Msg("Completed", 0, NULL), "info")
    /\ pc' = "done"
    /\ Emit(Len(lg) - Len(logs),
            <<Mut(StatusEv("completed")), Mut(ResultEv(NULL)),
              Pub(StatusEv("completed")), Pub(ResultEv(NULL))>>)
    /\ UNCHANGED <<attempt, feedback>>

\* lines 130-137 without the return: the loop goes on after a pass
OnPass_noReturn(v, lg) ==
    /\ status' = "completed"
    /\ final_report' = v.final_report
    /\ feedback' = v.feedback
    /\ LET h == LoopHead(attempt, log(lg, Msg("Completed", 0, NULL), "info")) IN
         /\ pc' = h.pc
         /\ attempt' = h.attempt
         /\ logs' = h.logs
    /\ Emit(Len(lg) - Len(logs),
            <<Mut(StatusEv("completed")), Mut(ResultEv(v.final_report)),
              Pub(StatusEv("completed")), Pub(ResultEv(v.final_report))>>)

\* lines 130-137: the verification passed
OnPass(v, lg) ==
    /\ status' = "completed"
    /\ final_report' = v.final_report
    /\ logs' = log(lg, Msg("Completed", 0, NULL), "info")
    /\ pc' = "done"
    /\ Emit(Len(lg) - Len(logs),
            <<Mut(StatusEv("completed")), Mut(ResultEv(v.final_report)),
              Pub(StatusEv("completed")), Pub(ResultEv(v.final_report))>>)
    /\ UNCHANGED <<attempt, feedback>>

\* lines 139-141 without the assignment to feedback
OnReject_keepFeedback(v, lg) ==
    /\ LET h == LoopHead(attempt, log(lg, Msg("Feedback", 0, v.feedback), "warning")) IN
         /\ pc' = h.pc
         /\ attempt' = h.attempt
         /\ logs' = h.logs
    /\ Emit(0, <<>>)
    /\ UNCHANGED <<status, final_report, feedback>>

\* lines 139-141 and the loop head: the verification did not pass
OnReject(v, lg) ==
    /\ feedback' = v.feedback
    /\ LET h == LoopHead(attempt, log(lg, Msg("Feedback", 0, v.feedback), "warning")) IN
         /\ pc' = h.pc
         /\ attempt' = h.attempt
         /\ logs' = h.logs
    /\ Emit(0, <<>>)
    /\ UNCHANGED <<status, final_report>>

\* lines 123-141: verify returns a verification or throws; pass completes
\* the job, anything else records the feedback and goes to the loop head
VerifierReturn(gem, grq) ==
    /\ pc = "L123"
    /\ LET routed == LLMverify(geminiAvailable, gem, grq)
           r == verify(routed)
           v == r.val
           lg1 == log(logs, Msg("VerifyDone", 0, NULL), "info")
           lg2 == IF v.quality_score # 0
                  THEN log(lg1, Msg("Quality", v.quality_score, NULL), "info")
                  ELSE lg1 IN
         IF r.threw
         THEN /\ Catch(r.error, logs)
              /\ rets' = Append(rets, Ret("verifier", attempt, routed.val.error, "throw", NULL, NULL, r.error))
              /\ UNCHANGED <<final_report, attempt, feedback>>
         ELSE /\ rets' = Append(rets, Ret("verifier", attempt, routed.val.error, v.status,
                                          v.feedback, v.final_report, NULL))
              /\ IF v.status = "pass" THEN OnPass(v, lg2) ELSE OnReject(v, lg2)
    /\ UNCHANGED <<topic, plan, findings, lastFindings, stepIdx, geminiAvailable, layerVars, jobId, response, calls>>

\* lines 144-156, after the loop: with lastFindings the job is marked
\* completed and the reporter is called; without, the job fails
Fallback ==
    /\ pc = "L144"
    /\ IF lastFindings # None
       THEN /\ logs' = log(logs, Msg("GeneratingReport", 0, NULL), "warning")
            /\ status' = "completed"
            /\ calls' = Append(calls, Call("reporter", attempt, NULL, lastFindings[1]))
            /\ pc' = "L147"
            /\ Emit(1, <<Mut(StatusEv("completed"))>>)
       ELSE /\ status' = "failed"
            /\ logs' = log(logs, Msg("ResearchFailed", 0, NULL), "error")
            /\ pc' = "done"
            /\ Emit(0, StatusItems("failed"))
            /\ UNCHANGED calls
    /\ UNCHANGED <<topic, plan, final_report, attempt, feedback, findings,
                   lastFindings, stepIdx, geminiAvailable, layerVars, jobId, response, rets>>

\* lines 147-151 without the notifySubscribers of line 148
ReporterReturn_noStatusEvent(gemText, grqText) ==
    /\ pc = "L147"
    /\ LET r == generate(geminiAvailable, gemText, grqText) IN
         IF r.threw
         THEN /\ Catch(r.error, logs)
              /\ rets' = Append(rets, Ret("reporter", attempt, NULL, "throw", NULL, NULL, r.error))
              /\ UNCHANGED final_report
         ELSE /\ final_report' = r.val
              /\ rets' = Append(rets, Ret("reporter", attempt, NULL, "text", NULL, r.val, NULL))
              /\ logs' = log(logs, Msg("ReportGenerated", 0, NULL), "info")
              /\ pc' = "done"
              /\ Emit(0, <<Mut(ResultEv(r.val)), Pub(ResultEv(r.val))>>)
              /\ UNCHANGED status
    /\ UNCHANGED <<topic, plan, attempt, feedback, findings,
                   lastFindings, stepIdx, geminiAvailable, layerVars, jobId, response, calls>>

\* lines 147-151 with an error text of the backend treated as a failure
ReporterReturn_failsOnErrorText(gemText, grqText) ==
    /\ pc = "L147"
    /\ LET r == generate(geminiAvailable, gemText, grqText) IN
         IF StartsWithError(r.val)
         THEN /\ Catch(r.val, logs)
              /\ rets' = Append(rets, Ret("reporter", attempt, NULL, "text", NULL, r.val, NULL))
              /\ UNCHANGED final_report
         ELSE /\ final_report' = r.val
              /\ rets' = Append(rets, Ret("reporter", attempt, NULL, "text", NULL, r.val, NULL))
              /\ logs' = log(logs, Msg("ReportGenerated", 0, NULL), "info")
              /\ pc' = "done"
              /\ Emit(0, <<Mut(ResultEv(r.val)), Pub(StatusEv(status)), Pub(ResultEv(r.val))>>)
              /\ UNCHANGED status
    /\ UNCHANGED <<topic, plan, attempt, feedback, findings,
                   lastFindings, stepIdx, geminiAvailable, layerVars, jobId, response, calls>>

\* lines 147-151: generate returns the report text (a throw would be caught)
ReporterReturn(gemText, grqText) ==
    /\ pc = "L147"
    /\ LET r == generate(geminiAvailable, gemText, grqText) IN
         IF r.threw
         THEN /\ Catch(r.error, logs)
              /\ rets' = Append(rets, Ret("reporter", attempt, NULL, "throw", NULL, NULL, r.error))
              /\ UNCHANGED final_report
         ELSE /\ final_report' = r.val
              /\ rets' = Append(rets, Ret("reporter", attempt, NULL, "text", NULL, r.val, NULL))
              /\ logs' = log(logs, Msg("ReportGenerated", 0, NULL), "info")
              /\ pc' = "done"
              /\ Emit(0, <<Mut(ResultEv(r.val)), Pub(StatusEv(status)), Pub(ResultEv(r.val))>>)
              /\ UNCHANGED status
    /\ UNCHANGED <<topic, plan, attempt, feedback, findings,
                   lastFindings, stepIdx, geminiAvailable, layerVars, jobId, response, calls>>

\* the steps of runJob.  No plan of plans or of PlanResults has a step that
\* asks the backend, so one text stands for the tool's and the backend's.
RunJob(plans, texts, verdicts, reports) ==
    \/ BeginPlanning
    \/ \E data \in plans : PlannerReturn(data)
    \/ BeginExecuting
    \/ \E text \in texts : ExecutorReturn(text, text)
    \/ StepDelayDone
    \/ BeginVerifying
    \/ Timer500
    \/ Timer300
    \/ \E gem \in verdicts, grq \in verdicts : VerifierReturn(gem, grq)
    \/ Fallback
    \/ \E gemText \in reports, grqText \in reports \ {""} : ReporterReturn(gemText, grqText)

Next ==
    \/ \E t \in Topics : CreateJob(t) /\ UNCHANGED response
    \/ BeginPlanning
    \/ \E data \in PlanResults : PlannerReturn(data)
    \/ BeginExecuting
    \/ \E text \in ToolTexts : ExecutorReturn(text, text)
    \/ StepDelayDone
    \/ BeginVerifying
    \/ Timer500
    \/ Timer300
    \/ \E gem \in VerifyResults, grq \in VerifyResults : VerifierReturn(gem, grq)
    \/ Fallback
    \/ \E gemText \in ReportTexts, grqText \in ReportTexts \ {""} : ReporterReturn(gemText, grqText)

Spec == Init /\ [][Next]_vars

\* the planner results the runs of FairSpec draw from: in a plan, every
\* step before the last is a web search with a query
FairPlanResults ==
    { d \in PlanResults :
        \A i \in DOMAIN d.steps :
            i < Len(d.steps) => (d.steps[i].tool = "web_search" /\ d.steps[i].params # NULL) }

\* the text of a tool result has no part in what runJob does next
FairToolTexts == {"Title: A"}

FairNext ==
    \/ \E t \in Topics : CreateJob(t) /\ UNCHANGED response
    \/ RunJob(FairPlanResults, FairToolTexts, VerifyResults, ReportTexts)

\* runJob goes on whenever it can: every call of a backend, a tool or a
\* timer that it awaits ends, and its continuation is then run
FairSpec ==
    /\ Init
    /\ [][FairNext]_vars
    /\ WF_vars(RunJob(FairPlanResults, FairToolTexts, VerifyResults, ReportTexts))

\* ------------------------------------------------------------ the router
RouterOps == {"plan", "execute", "verify", "synthesize"}

\* plan and verify ask for JSON, execute and synthesize for text
KindOf(op) == IF op \in {"plan", "verify"} THEN "json" ELSE "text"

\* a call of generateJson or generateText on a backend, with the class of
\* each provider request it has issued
GenCall(backend, kind) ==
    [backend |-> backend, kind |-> kind, requests |-> <<>>, returned |-> FALSE, result |-> NoValue]

\* verify and synthesize going to Gemini whether or not it is configured
RouterCall_alwaysGemini(op) ==
    /\ rpc = "idle"
    /\ rop' = op
    /\ rpc' = IF op \in {"verify", "synthesize"} THEN "gemini" ELSE "groq"
    /\ genLog' = <<GenCall(rpc', KindOf(op))>>
    /\ genI' = 0
    /\ rresult' = Ok(NoValue)
    /\ UNCHANGED <<jobVars, throttleVars, registryVars, searchVars, geminiAvailable>>

\* every operation going to Gemini first when it is configured
RouterCall_planOnGemini(op) ==
    /\ rpc = "idle"
    /\ rop' = op
    /\ rpc' = IF geminiAvailable THEN "gemini" ELSE "groq"
    /\ genLog' = <<GenCall(rpc', KindOf(op))>>
    /\ genI' = 0
    /\ rresult' = Ok(NoValue)
    /\ UNCHANGED <<jobVars, throttleVars, registryVars, searchVars, geminiAvailable>>

\* LLM.plan, execute, verify, synthesize up to the first backend call
RouterCall(op) ==
    /\ rpc = "idle"
    /\ rop' = op
    /\ rpc' = IF op \in {"verify", "synthesize"} /\ geminiAvailable THEN "gemini" ELSE "groq"
    /\ genLog' = <<GenCall(rpc', KindOf(op))>>
    /\ genI' = 0
    /\ rresult' = Ok(NoValue)
    /\ UNCHANGED <<jobVars, throttleVars, registryVars, searchVars, geminiAvailable>>

\* the router calling Groq after Gemini whatever Gemini returned
RouterContinue_alwaysFallback(v, lg) ==
    IF rpc = "gemini"
    THEN /\ rpc' = "groq"
         /\ genLog' = Append(lg, GenCall("groq", v.kind))
         /\ UNCHANGED rresult
    ELSE /\ rresult' = Ok(v)
         /\ rpc' = "done"
         /\ genLog' = lg

\* the backend call has returned v: what the router does with it
RouterContinue(v, lg) ==
    IF rpc = "gemini"
    THEN IF v.kind = "json" /\ v.json.isNull
         THEN /\ rresult' = Throw(TypeErrorNull, v)
              /\ rpc' = "done"
              /\ genLog' = lg
         ELSE IF ~IsErrorValue(v)
         THEN /\ rresult' = Ok(v)
              /\ rpc' = "done"
              /\ genLog' = lg
         ELSE /\ rpc' = "groq"
              /\ genLog' = Append(lg, GenCall("groq", v.kind))
              /\ UNCHANGED rresult
    ELSE /\ rresult' = Ok(v)
         /\ rpc' = "done"
         /\ genLog' = lg

\* the loop of generateJson / generateText retrying after any error
ProviderRequest_retriesAnyError(out) ==
    /\ rpc \in {"gemini", "groq"}
    /\ LET n == Len(genLog)
           call == genLog[n]
           class == IF out.ok THEN "ok" ELSE IF IsRateLimit(rpc, out.err) THEN "rate" ELSE "other"
           sent == [genLog EXCEPT ![n].requests = Append(@, class)] IN
         IF out.ok
         THEN /\ RouterContinue(out.val, [sent EXCEPT ![n].returned = TRUE, ![n].result = out.val])
              /\ genI' = 0
         ELSE IF genI < retries - 1
         THEN /\ genI' = genI + 1
              /\ genLog' = sent
              /\ UNCHANGED <<rpc, rresult>>
         ELSE LET v == ErrorValue(call.kind, out.err.message) IN
              /\ RouterContinue(v, [sent EXCEPT ![n].returned = TRUE, ![n].result = v])
              /\ genI' = 0
    /\ UNCHANGED <<jobVars, throttleVars, registryVars, searchVars, geminiAvailable, rop>>

\* one turn of the loop of generateJson / generateText: throttle, the
\* provider request and its outcome
ProviderRequest(out) ==
    /\ rpc \in {"gemini", "groq"}
    /\ LET n == Len(genLog)
           call == genLog[n]
           class == IF out.ok THEN "ok" ELSE IF IsRateLimit(rpc, out.err) THEN "rate" ELSE "other"
           sent == [genLog EXCEPT ![n].requests = Append(@, class)] IN
         IF out.ok
         THEN /\ RouterContinue(out.val, [sent EXCEPT ![n].returned = TRUE, ![n].result = out.val])
              /\ genI' = 0
         ELSE IF IsRateLimit(rpc, out.err) /\ genI < retries - 1
         THEN /\ genI' = genI + 1
              /\ genLog' = sent
              /\ UNCHANGED <<rpc, rresult>>
         ELSE LET v == ErrorValue(call.kind, out.err.message) IN
              /\ RouterContinue(v, [sent EXCEPT ![n].returned = TRUE, ![n].result = v])
              /\ genI' = 0
    /\ UNCHANGED <<jobVars, throttleVars, registryVars, searchVars, geminiAvailable, rop>>

\* the caller has the result; the router can be called again
RouterReturn ==
    /\ rpc = "done"
    /\ rpc' = "idle"
    /\ rop' = "none"
    /\ genLog' = <<>>
    /\ rresult' = Ok(NoValue)
    /\ UNCHANGED <<jobVars, throttleVars, registryVars, searchVars, geminiAvailable, genI>>

RouterNext ==
    \/ \E op \in RouterOps : RouterCall(op)
    \/ \E out \in ProviderOutcomes(KindOf(rop)) : ProviderRequest(out)
    \/ RouterReturn

RouterSpec == Init /\ [][RouterNext]_vars

\* ------------------------------------------------------------ throttle
\* the request that follows the return of throttle()
Issue(c, b) == issued' = Append(issued, [backend |-> b, time |-> clock, caller |-> c])

\* throttle() up to its await: when the last request is less than
\* minDelay ago the caller sleeps for the rest of it, else it goes on at
\* once, notes the time and issues its request
ThrottleEnter(c, b) ==
    /\ sleepers[c] = NotInThrottle
    /\ LET now == clock
           timeSinceLastRequest == now - lastRequestTime[b] IN
         IF timeSinceLastRequest < minDelay[b]
         THEN /\ sleepers' = [sleepers EXCEPT ![c] =
                                 [backend |-> b, wake |-> now + (minDelay[b] - timeSinceLastRequest)]]
              /\ UNCHANGED <<lastRequestTime, issued>>
         ELSE /\ lastRequestTime' = [lastRequestTime EXCEPT ![b] = clock]
              /\ Issue(c, b)
              /\ UNCHANGED sleepers
    /\ UNCHANGED <<jobVars, routerVars, registryVars, searchVars, geminiAvailable, clock>>

\* the timer of throttle() has fired: the caller notes the time and issues
\* its request
ThrottleWake(c) ==
    /\ sleepers[c] # NotInThrottle
    /\ clock >= sleepers[c].wake
    /\ lastRequestTime' = [lastRequestTime EXCEPT ![sleepers[c].backend] = clock]
    /\ Issue(c, sleepers[c].backend)
    /\ sleepers' = [sleepers EXCEPT ![c] = NotInThrottle]
    /\ UNCHANGED <<jobVars, routerVars, registryVars, searchVars, geminiAvailable, clock>>

\* time passes
Tick ==
    /\ clock < StartTime + MaxTime
    /\ clock' = clock + 1
    /\ UNCHANGED <<jobVars, routerVars, registryVars, searchVars, geminiAvailable,
                   lastRequestTime, sleepers, issued>>

ThrottleNext ==
    \/ \E c \in Callers, b \in Backends : ThrottleEnter(c, b)
    \/ \E c \in Callers : ThrottleWake(c)
    \/ Tick

ThrottleSpec == Init /\ [][ThrottleNext]_vars

\* the verification results the runs of RetrySpec draw from: also a
\* rejection whose feedback is the empty string
RetryVerifyResults == VerifyResults \cup { VerJson(NULL, "fail", 40, "", NULL) }

RetryReportTexts == {"# Executive Summary", "Error: 429 rate limit exceeded"}

RetryNext ==
    \/ CreateJob("solid state batteries") /\ UNCHANGED response
    \/ RunJob(FairPlanResults, FairToolTexts, RetryVerifyResults, RetryReportTexts)

RetrySpec == Init /\ [][RetryNext]_vars

\* the steps the planner backend returns in the runs of ExecSpec: a search,
\* a scrape, an analysis and a tool executeStep does not know
ExecStepShapes ==
    { [tool |-> "web_search", params |-> "q"],
      [tool |-> "scrape_url", params |-> "u"],
      [tool |-> "analyze_content", params |-> NULL],
      [tool |-> "summarize", params |-> "q"] }

ExecPlanResults ==
    { PlanJson(NULL, TRUE, [i \in 1..2 |-> [step_id |-> i, tool |-> sh[i].tool, params |-> sh[i].params]]) :
        sh \in [1..2 -> ExecStepShapes] }

\* what scrapeUrl returns: the text of the page, or its catch's text
ScrapeTexts == {"page text", "Failed to scrape URL: timeout of 15000ms exceeded"}

\* what groq.generateText returns for an extraction or analysis prompt
BackendTexts == {"key facts", "Error: fetch failed"}

\* what the tool of a step returns, if the step calls one
ToolOutputs(step) ==
    CASE step.tool = "web_search" -> ToolTexts
      [] step.tool = "scrape_url" -> ScrapeTexts
      [] OTHER -> {NULL}

ExecVerifyResults ==
    { VerJson(NULL, "pass", 75, NULL, "# Report"), VerJson(NULL, "fail", 40, "needs sources", NULL) }

ExecNext ==
    \/ CreateJob("solid state batteries") /\ UNCHANGED response
    \/ BeginPlanning
    \/ \E data \in ExecPlanResults : PlannerReturn(data)
    \/ BeginExecuting
    \/ \E llmText \in BackendTexts :
         \E toolText \in (IF pc = "L101" THEN ToolOutputs(plan[1].steps[stepIdx]) ELSE {NULL}) :
             ExecutorReturn(toolText, llmText)
    \/ StepDelayDone
    \/ BeginVerifying
    \/ Timer500
    \/ Timer300
    \/ \E gem \in ExecVerifyResults : VerifierReturn(gem, gem)
    \/ Fallback
    \/ ReporterReturn("# Executive Summary", "# Executive Summary")

ExecSpec == Init /\ [][ExecNext]_vars

\* ------------------------------------------------------------ search.js
\* the search providers with an API key, in the order webSearch tries them
Providers == <<"Serper", "Tavily", "Brave">>

ProviderNames == { Providers[i] : i \in DOMAIN Providers }

\* a text is the sequence of its words; String.prototype.includes(word)
Includes(text, word) == \E i \in DOMAIN text : text[i] = word

\* what a provider request comes to: a list of results (given as the text
\* their titles and snippets make), an empty list, or an error
SearchOutcome(kind, text) == [kind |-> kind, text |-> text]

SearchOutcomes ==
    { SearchOutcome("results", <<"Title:", "Battery", "recycling", "plants">>),
      SearchOutcome("results", <<"Title:", "Why", "the", "recycler", "failed">>),
      SearchOutcome("empty", <<>>),
      SearchOutcome("error", <<"timeout", "of", "10000ms", "exceeded">>) }

\* serperSearch, tavilySearch, braveSearch: the joined results, null for an
\* empty list, and the text of the catch for an error
providerSearch(p, out) ==
    CASE out.kind = "results" -> Some(out.text)
      [] out.kind = "empty" -> None
      [] out.kind = "error" -> Some(<<p, "search", "failed:">> \o out.text)

\* the texts duckDuckGoSearch returns when it gives up
NoResultsText == <<"No", "search", "results", "found.", "The", "AI", "will", "use", "its", "knowledge", "base", "instead.">>
TemporarilyUnavailableText == <<"Search", "temporarily", "unavailable.">>

ddgMaxRetries == 2

\* the stage of webSearch after provider number i: the next provider whose
\* key is set, or DuckDuckGo
StageAfter(i, cfg) ==
    LET later == { j \in DOMAIN Providers : j > i /\ cfg[Providers[j]] } IN
      IF later = {} THEN "ddg"
      ELSE Providers[CHOOSE j \in later : \A k \in later : j <= k]

IndexOf(p) == CHOOSE i \in DOMAIN Providers : Providers[i] = p

\* result && !result.includes('failed')
Accepts(r) == r # None /\ r[1] # <<>> /\ ~Includes(r[1], "failed") /\ ~Includes(r[1], "failed:")

\* webSearch is called in a process whose environment holds the keys cfg
WebSearchCall(cfg) ==
    /\ spc = "idle"
    /\ keys' = cfg
    /\ spc' = StageAfter(0, cfg)
    /\ ddgAttempt' = 0
    /\ tried' = <<>>
    /\ sresult' = None
    /\ UNCHANGED <<jobVars, routerVars, throttleVars, registryVars, geminiAvailable>>

\* lines 15-30: the request to provider spc has ended with out
ProviderSearch(out) ==
    /\ spc \in ProviderNames
    /\ LET r == providerSearch(spc, out) IN
         /\ tried' = Append(tried, [provider |-> spc, kind |-> out.kind, returned |-> r])
         /\ IF Accepts(r)
            THEN sresult' = r /\ spc' = "done"
            ELSE sresult' = sresult /\ spc' = StageAfter(IndexOf(spc), keys)
    /\ UNCHANGED <<jobVars, routerVars, throttleVars, registryVars, geminiAvailable, keys, ddgAttempt>>

\* duckDuckGoSearch: one turn of its loop has ended with out
DuckDuckGoAttempt(out) ==
    /\ spc = "ddg"
    /\ ddgAttempt < ddgMaxRetries
    /\ LET last == ~(ddgAttempt < ddgMaxRetries - 1)
           r == CASE out.kind = "results" -> Some(out.text)
                  [] out.kind = "empty" -> IF last THEN Some(NoResultsText) ELSE None
                  [] out.kind = "error" -> IF last THEN Some(TemporarilyUnavailableText) ELSE None IN
         /\ tried' = Append(tried, [provider |-> "DuckDuckGo", kind |-> out.kind, returned |-> r])
         /\ IF r # None
            THEN sresult' = r /\ spc' = "done" /\ ddgAttempt' = ddgAttempt
            ELSE sresult' = sresult /\ spc' = spc /\ ddgAttempt' = ddgAttempt + 1
    /\ UNCHANGED <<jobVars, routerVars, throttleVars, registryVars, geminiAvailable, keys>>

SearchNext ==
    \/ \E cfg \in [ProviderNames -> BOOLEAN] : WebSearchCall(cfg)
    \/ \E out \in SearchOutcomes : ProviderSearch(out)
    \/ \E out \in SearchOutcomes : DuckDuckGoAttempt(out)

SearchSpec == Init /\ [][SearchNext]_vars

\* ------------------------------------------------------------ several jobs
\* new JobState(jobId, topic), with the place where the job's run stands
JobState(t) ==
    [topic |-> t, status |-> "queued", plan |-> None, logs |-> <<>>, final_report |-> NULL,
     at |-> 0]

\* the plan of the runs of the registry: one web search
OneStepPlan == Plan(PlanJson(NULL, TRUE, <<[step_id |-> 1, tool |-> "web_search", params |-> "q"]>>))

\* the statements of a run whose first verification passes, in blocks
\* that end at an await: what block k makes of the job
RunBlock(k, job) ==
    CASE k = 1 -> [job EXCEPT !.logs = log(@, Msg("Attempt", 1, NULL), "info")]
      [] k = 2 -> [job EXCEPT !.status = "planning",
                              !.logs = log(@, Msg("Planning", 0, NULL), "info")]
      [] k = 3 -> [job EXCEPT !.plan = Some([OneStepPlan EXCEPT !.steps[1].status = "active"]),
                              !.status = "executing",
                              !.logs = log(log(@, Msg("StepsPlanned", 1, NULL), "info"),
                                           Msg("Step", 1, NULL), "info")]
      [] k = 4 -> [job EXCEPT !.plan = Some([@[1] EXCEPT !.steps[1].result = "Title: A",
                                                         !.steps[1].status = "completed"]),
                              !.logs = log(@, Msg("Done", 1, NULL), "info")]
      [] k = 5 -> [job EXCEPT !.status = "verifying",
                              !.logs = log(@, Msg("VerifyStart", 0, NULL), "info")]
      [] k = 6 -> [job EXCEPT !.status = "completed",
                              !.final_report = "# Report",
                              !.logs = log(@, Msg("Completed", 0, NULL), "info")]
      [] OTHER -> job

\* the events block k hands to notifySubscribers(jobId, ...), in order
BlockEvents(k, job) ==
    LET new == RunBlock(k, job)
        logEvs == [i \in 1..(Len(new.logs) - Len(job.logs)) |-> LogEv(new.logs[Len(job.logs) + i])]
        statusEvs == IF new.status # job.status THEN <<StatusEv(new.status)>> ELSE <<>>
        resultEvs == IF new.final_report # job.final_report
                     THEN <<ResultEv(new.final_report)>> ELSE <<>> IN
      IF k = 3 THEN <<logEvs[1]>> \o statusEvs \o <<logEvs[2]>>
      ELSE statusEvs \o resultEvs \o logEvs

LastBlock == 6

\* notifySubscribers writing to the subscribers of every job
RegNotify_broadcast(es, id, evs) ==
    [j \in JobIds |-> IF es[j] = None THEN None ELSE Some(notifySubscribers(es[j][1], evs))]

\* notifySubscribers(jobId, ...): the subscribers found under the job's id
RegNotify(es, id, evs) ==
    IF es[id] = None THEN es
    ELSE [es EXCEPT ![id] = Some(notifySubscribers(@[1], evs))]

\* Controller.createJob for one more job, and its run up to the first await
RegCreateJob(id, t) ==
    /\ jobs[id] = None
    /\ jobs' = [jobs EXCEPT ![id] = Some([RunBlock(1, JobState(t)) EXCEPT !.at = 1])]
    /\ eventSubscribers' = [eventSubscribers EXCEPT ![id] = Some(<<>>)]
    /\ actor' = id
    /\ UNCHANGED <<jobVars, routerVars, throttleVars, searchVars, geminiAvailable>>

\* the run of job id goes on by one block
RegRun(id) ==
    /\ jobs[id] # None
    /\ jobs[id][1].at < LastBlock
    /\ LET job == jobs[id][1]
           k == job.at + 1 IN
         /\ jobs' = [jobs EXCEPT ![id] = Some([RunBlock(k, job) EXCEPT !.at = k])]
         /\ eventSubscribers' = RegNotify(eventSubscribers, id, BlockEvents(k, job))
    /\ actor' = id
    /\ UNCHANGED <<jobVars, routerVars, throttleVars, searchVars, geminiAvailable>>

\* Controller.subscribe(jobId, res), the response having been written the
\* replay of the job's log
RegSubscribe(id) ==
    /\ jobs[id] # None
    /\ eventSubscribers[id] # None
    /\ Len(eventSubscribers[id][1]) < MaxSubs
    /\ LET replay == [i \in DOMAIN jobs[id][1].logs |-> LogEv(jobs[id][1].logs[i])] IN
         eventSubscribers' = [eventSubscribers EXCEPT ![id] = Some(Append(@[1], Subscriber(replay, 0)))]
    /\ actor' = id
    /\ UNCHANGED <<jobVars, routerVars, throttleVars, searchVars, geminiAvailable, jobs>>

RegistryNext ==
    \/ \E id \in JobIds, t \in Topics : RegCreateJob(id, t)
    \/ \E id \in JobIds : RegRun(id)
    \/ \E id \in JobIds : RegSubscribe(id)

RegistrySpec == Init /\ [][RegistryNext]_vars

\* ------------------------------------------------------------ server.js
\* the topic field of the body of a job-creation request (NULL: no field)
RequestTopics == Topics \cup {"", NULL}

\* the job ids of status queries and event-stream requests
RequestIds == Uuids \cup {"no-such-job"}

\* a request handler runs as a task of its own: before the job exists, or
\* while runJob waits for a backend, a tool or a timer, or after it ended
HandlerCanRun == pc \in {"idle", "L88", "L101", "L107", "L118", "L120", "L123", "L147", "done"}

\* the job-creation handler without the test of the topic
PostJobs_noCheck(t) ==
    /\ pc = "idle"
    /\ CreateJob(IF t = NULL THEN "" ELSE t)
    /\ response' = Response("POST jobs", t, 200, jobId')

\* POST /api/v1/jobs: 400 without a topic, else createJob and its id.  One
\* job is followed, so a request with a topic is taken while there is none.
PostJobs(t) ==
    /\ HandlerCanRun
    /\ IF Falsy(t)
       THEN /\ response' = Response("POST jobs", t, 400, NULL)
            /\ UNCHANGED <<pc, topic, status, plan, logs, final_report, attempt, feedback,
                           findings, lastFindings, stepIdx, geminiAvailable, layerVars, calls, rets,
                           jobId, subs, trace>>
       ELSE /\ pc = "idle"
            /\ CreateJob(t)
            /\ response' = Response("POST jobs", t, 200, jobId')

\* the replay followed by a status event for the job's current status
Replay_withStatus ==
    [i \in DOMAIN logs |-> LogEv(logs[i])]
      \o <<StatusEv(status)>>
      \o (IF status = "completed" /\ ~Falsy(final_report) THEN <<ResultEv(final_report)>> ELSE <<>>)

\* the replay with the result sent for every completed job
Replay_noReportTest ==
    [i \in DOMAIN logs |-> LogEv(logs[i])]
      \o (IF status = "completed" THEN <<ResultEv(final_report)>> ELSE <<>>)

\* the replay leaving out the newest entry of the log
Replay_dropsLast ==
    [i \in 1..(Len(logs) - 1) |-> LogEv(logs[i])]
      \o (IF status = "completed" /\ ~Falsy(final_report) THEN <<ResultEv(final_report)>> ELSE <<>>)

\* what the event-stream handler writes before it subscribes: the log,
\* then the result if the job is completed and has a report
Replay ==
    [i \in DOMAIN logs |-> LogEv(logs[i])]
      \o (IF status = "completed" /\ ~Falsy(final_report) THEN <<ResultEv(final_report)>> ELSE <<>>)

\* GET /api/v1/jobs/:jobId: 404 for an unknown id, else the job
GetJob(id) ==
    /\ HandlerCanRun
    /\ response' = IF getJob(id) = None
                   THEN Response("GET job", id, 404, NULL)
                   ELSE Response("GET job", id, 200, id)
    /\ UNCHANGED <<pc, topic, status, plan, logs, final_report, attempt, feedback,
                   findings, lastFindings, stepIdx, geminiAvailable, layerVars, calls, rets,
                   jobId, subs, trace>>

\* the event-stream handler without the lookup of the job
GetEvents_noLookup(id) ==
    /\ HandlerCanRun
    /\ Len(subs) < MaxSubs
    /\ subs' = Append(subs, Subscriber(Replay, Len(Pubs(trace))))
    /\ response' = Response("GET events", id, 200, id)
    /\ UNCHANGED <<pc, topic, status, plan, logs, final_report, attempt, feedback,
                   findings, lastFindings, stepIdx, geminiAvailable, layerVars, calls, rets,
                   jobId, trace>>

\* GET /api/v1/jobs/:jobId/events: 404 for an unknown id, else the replay
\* and Controller.subscribe
GetEvents(id) ==
    /\ HandlerCanRun
    /\ IF id # jobId
       THEN /\ response' = Response("GET events", id, 404, NULL)
            /\ UNCHANGED subs
       ELSE /\ Len(subs) < MaxSubs
            /\ subs' = Append(subs, Subscriber(Replay, Len(Pubs(trace))))
            /\ response' = Response("GET events", id, 200, id)
    /\ UNCHANGED <<pc, topic, status, plan, logs, final_report, attempt, feedback,
                   findings, lastFindings, stepIdx, geminiAvailable, layerVars, calls, rets,
                   jobId, trace>>

\* req.on('close') taking the response out of eventSubscribers[jobId]
Disconnect_removes(i) ==
    /\ HandlerCanRun
    /\ i \in DOMAIN subs
    /\ ~subs[i].closed
    /\ subs' = [k \in 1..(Len(subs) - 1) |-> IF k < i THEN subs[k] ELSE subs[k + 1]]
    /\ UNCHANGED <<pc, topic, status, plan, logs, final_report, attempt, feedback,
                   findings, lastFindings, stepIdx, geminiAvailable, layerVars, calls, rets,
                   jobId, trace, response>>

\* the client of subscriber i goes away: req.on('close') stops the
\* keep-alive timer of the response, which stays in eventSubscribers[jobId]
Disconnect(i) ==
    /\ HandlerCanRun
    /\ i \in DOMAIN subs
    /\ ~subs[i].closed
    /\ subs' = [subs EXCEPT ![i].closed = TRUE]
    /\ UNCHANGED <<pc, topic, status, plan, logs, final_report, attempt, feedback,
                   findings, lastFindings, stepIdx, geminiAvailable, layerVars, calls, rets,
                   jobId, trace, response>>

\* the backend results the runs of ServerSpec draw from
ServerPlanResults ==
    { PlanJson(NULL, TRUE, st) : st \in { a \in StepArrays : Len(a) <= 1 /\ \A i \in DOMAIN a : a[i].tool = "web_search" /\ a[i].params # NULL } }
    \cup { PlanJson(e, TRUE, <<>>) : e \in ErrorMsgs }

ServerToolTexts == {"Title: A"}

ServerVerifyResults ==
    { v \in VerifyResults : v.isNull \/ (v.error = NULL /\ v.feedback # NULL) \/ v.status = "pass" }

ServerReportTexts == {"# Executive Summary", ""}

ServerNext ==
    \/ \E t \in RequestTopics : PostJobs(t)
    \/ \E id \in RequestIds : GetJob(id)
    \/ \E id \in RequestIds : GetEvents(id)
    \/ RunJob(ServerPlanResults, ServerToolTexts, ServerVerifyResults, ServerReportTexts)

ServerSpec == Init /\ [][ServerNext]_vars

\* the client has been sent a result event: its 'result' listener closes
\* the EventSource, which the server sees as the close of the request
ClientResult(i) ==
    /\ i \in DOMAIN subs
    /\ \E k \in DOMAIN subs[i].stream : subs[i].stream[k].event = "result"
    /\ Disconnect(i)

\* the backend results the runs with clients that go away draw from
StreamPlanResults == { p \in ServerPlanResults : p.error # NULL \/ Len(p.steps) = 1 }

StreamVerifyResults == { v \in ServerVerifyResults : ~v.isNull }

StreamReportTexts == {"# Executive Summary"}

StreamNext ==
    \/ PostJobs("solid state batteries")
    \/ \E id \in Uuids : GetEvents(id)
    \/ \E i \in 1..MaxSubs : Disconnect(i)
    \/ \E i \in 1..MaxSubs : ClientResult(i)
    \/ RunJob(StreamPlanResults, ServerToolTexts, StreamVerifyResults, StreamReportTexts)

StreamSpec == Init /\ [][StreamNext]_vars

\* runJob goes on whenever it can, and so does the listener of a client
\* that has been sent the result; a caller goes away when it likes
CloseSpec ==
    /\ Init
    /\ [][StreamNext]_vars
    /\ WF_vars(RunJob(StreamPlanResults, ServerToolTexts, StreamVerifyResults, StreamReportTexts))
    /\ \A i \in 1..MaxSubs : WF_vars(ClientResult(i))

\* ------------------------------------------------------------ properties
JobStatuses == {"queued", "planning", "executing", "verifying", "completed", "failed"}

StatusEdges ==
    { <<"queued", "planning">>, <<"planning", "executing">>, <<"executing", "verifying">>,
      <<"verifying", "completed">>, <<"verifying", "planning">> }
    \cup { <<s, "failed">> : s \in {"queued", "planning", "executing", "verifying"} }

Last(s) == s[Len(s)]

\* how many calls (or returns) of an agent a sequence holds
Count(agent, s) == Cardinality({ i \in DOMAIN s : s[i].agent = agent })

IsWorkCall(c) == c.agent \in {"planner", "executor", "verifier"}

\* the verifications that returned a status other than pass
Rejections == { i \in DOMAIN rets : rets[i].agent = "verifier" /\ rets[i].status \notin {"pass", "throw"} }

AllAttemptsRejected == Cardinality(Rejections) = maxRetries

C1_StatusEdges_Step ==
    /\ (pc = "idle" /\ pc' # "idle") => status' = "queued"
    /\ pc' # "idle" => status' \in JobStatuses
    /\ (pc # "idle" /\ status' # status) => <<status, status'>> \in StatusEdges

\* C1: the job is created queued, its status is always one of the six
\* values, and every change of it is one of the edges of the state machine
C1_StatusEdges == [][C1_StatusEdges_Step]_vars

W_C1_RetryThenCompleted ==
    /\ pc = "done"
    /\ status = "completed"
    /\ attempt = maxRetries
    /\ Count("verifier", rets) = maxRetries

\* C2: wherever a status query can see the job, final_report is set if and
\* only if the status is completed
C2_ReportIffCompleted ==
    (pc # "idle" /\ Suspended) => ((final_report # NULL) <=> (status = "completed"))

C3_TerminalIsFinal_Step ==
    status \in {"completed", "failed"} =>
      /\ status' = status
      /\ SelectSeq(calls', IsWorkCall) = SelectSeq(calls, IsWorkCall)

\* C3: once the status is completed or failed no step changes it, and no
\* step calls the planner, the executor or the verifier
C3_TerminalIsFinal == [][C3_TerminalIsFinal_Step]_vars

W_C3_StepAfterCompleted ==
    /\ pc = "done"
    /\ status = "completed"
    /\ Count("reporter", rets) = 1

\* C4: when every attempt's verification was rejected and the last findings
\* are not empty, the job is never failed, and it ends completed with the
\* reporter's text, generated from the findings of the last attempt
C4_FallbackReport ==
    (AllAttemptsRejected /\ lastFindings # None /\ lastFindings[1] # <<>>) =>
        /\ status # "failed"
        /\ pc \in {"L144", "L147", "done"}
        /\ pc = "done" =>
             /\ status = "completed"
             /\ Last(rets).agent = "reporter"
             /\ final_report = Last(rets).report
             /\ Last(calls).agent = "reporter"
             /\ Last(calls).findings = lastFindings[1]
             /\ \E i \in DOMAIN calls :
                  /\ calls[i].agent = "verifier"
                  /\ calls[i].attempt = maxRetries
                  /\ calls[i].findings = Last(calls).findings

W_C4_FallbackDone ==
    /\ pc = "done"
    /\ AllAttemptsRejected
    /\ lastFindings # None
    /\ lastFindings[1] # <<>>
    /\ final_report \in ErrorTexts

\* C5: when every attempt's verification was rejected and the last findings
\* are empty, the job ends failed and no report is produced
C5_EmptyFindingsFail ==
    (pc \in {"L147", "done"} /\ AllAttemptsRejected /\ lastFindings = Some(<<>>)) =>
        /\ status = "failed"
        /\ final_report = NULL
        /\ Count("reporter", calls) = 0

\* C6: a pass of the first attempt's verification completes the job with
\* the verifier's final_report, the planner having been called once
C6_FirstPass ==
    \A i \in DOMAIN rets :
        (rets[i].agent = "verifier" /\ rets[i].attempt = 1 /\ rets[i].status = "pass") =>
            /\ status = "completed"
            /\ pc = "done"
            /\ final_report = rets[i].report
            /\ Count("planner", calls) = 1
            /\ Count("planner", rets) = 1

W_C6_FirstPass ==
    /\ rets # <<>>
    /\ Last(rets).agent = "verifier"
    /\ Last(rets).attempt = 1
    /\ Last(rets).status = "pass"
    /\ final_report = "# Report"

C7_RetryCeiling_Step ==
    /\ attempt' <= maxRetries
    /\ Count("planner", calls') <= maxRetries
    /\ Count("verifier", calls') <= maxRetries
    /\ (status = "verifying" /\ status' = "planning") =>
         /\ rets # <<>>
         /\ Last(rets).agent = "verifier"
         /\ Last(rets).status \notin {"pass", "throw"}
         /\ Last(rets).attempt < maxRetries
         /\ attempt' = Last(rets).attempt + 1

\* C7: never more than maxRetries attempts, planner calls or verifier
\* calls, and the job goes back from verifying to planning only after a
\* rejected verification of an attempt below the ceiling
C7_RetryCeiling == [][C7_RetryCeiling_Step]_vars

W_C7_Retried ==
    /\ status = "planning"
    /\ attempt = maxRetries
    /\ Count("planner", calls) = maxRetries

\* C8: the planner gets no feedback in the first attempt, and in attempt k
\* the feedback the verifier returned in attempt k-1, which is also the
\* feedback line of its prompt
C8_FeedbackCarried ==
    \A i \in DOMAIN calls :
        calls[i].agent = "planner" =>
            IF calls[i].attempt = 1
            THEN calls[i].feedback = NULL /\ FeedbackLine(calls[i].feedback) = "None"
            ELSE \E j \in DOMAIN rets :
                   /\ rets[j].agent = "verifier"
                   /\ rets[j].attempt = calls[i].attempt - 1
                   /\ calls[i].feedback = rets[j].feedback
                   /\ FeedbackLine(calls[i].feedback) = rets[j].feedback

W_C8_SecondPlanning ==
    /\ calls # <<>>
    /\ Last(calls).agent = "planner"
    /\ Last(calls).attempt = 2
    /\ Last(calls).feedback = "needs sources"

C9_PlannerErrorFatal_Step ==
    /\ (Len(rets') = Len(rets) + 1 /\ Last(rets').agent = "planner" /\ Last(rets').backend # NULL) =>
         /\ status = "planning"
         /\ status' = "failed"
         /\ pc' = "done"
         /\ logs' = Append(logs, LogEntry(Msg("Error", 0, Last(rets').backend), "error"))
         /\ calls' = calls
         /\ \A i \in DOMAIN calls : calls[i].attempt = attempt => calls[i].agent = "planner"
         /\ Count("reporter", calls) = 0
    /\ (rets # <<>> /\ Last(rets).agent = "planner" /\ Last(rets).backend # NULL) =>
         /\ calls' = calls
         /\ status' = status

\* C9: an error result of the planner's backend takes the job from planning
\* to failed in that step, with the error as an error-level log entry; the
\* attempt has called no executor and no verifier, the reporter was never
\* called, and nothing is called afterwards
C9_PlannerErrorFatal == [][C9_PlannerErrorFatal_Step]_vars

W_C9_PlannerErrorOnRetry ==
    /\ pc = "done"
    /\ status = "failed"
    /\ rets # <<>>
    /\ Last(rets).agent = "planner"
    /\ Last(rets).attempt = 2
    /\ Last(rets).backend \in ErrorMsgs
    /\ Last(logs).level = "error"

\* C10: an error result of the verifier's backend call (after the router's
\* fallback) fails the job with an error-level log entry
C10_VerifierErrorFatal ==
    \A i \in DOMAIN rets :
        (rets[i].agent = "verifier" /\ rets[i].backend # NULL) =>
            /\ status = "failed"
            /\ pc = "done"
            /\ Last(logs).level = "error"

\* the agent call that ended in this step threw
Threw == Len(rets') = Len(rets) + 1 /\ Last(rets').error # NULL

C11_ErrorLogged_Step ==
    /\ Threw =>
          /\ status' = "failed"
          /\ logs' = Append(logs, LogEntry(Msg("Error", 0, Last(rets').error), "error"))
    /\ (status' = "failed" /\ pc' = "done") =>
          /\ logs' # <<>>
          /\ Last(logs').level = "error"

\* C11: when an agent call of runJob throws, the job's status becomes failed
\* and exactly one entry is appended to the log, of level error and carrying
\* the error's message; a failed job whose run has ended has an entry of
\* level error as the last entry of its log.
C11_ErrorLogged == [][C11_ErrorLogged_Step]_vars

\* the executor threw in the second attempt and the run has ended
W_C11_ExecutorThrew ==
    /\ pc = "done"
    /\ status = "failed"
    /\ Last(rets).agent = "executor"
    /\ Last(rets).attempt = 2
    /\ Last(rets).error # NULL
    /\ Last(logs) = LogEntry(Msg("Error", 0, Last(rets).error), "error")

\* the steps of the current plan that are active
ActiveSteps ==
    IF plan = None THEN {}
    ELSE { i \in DOMAIN plan[1].steps : plan[1].steps[i].status = "active" }

FindingsOfPlan ==
    [i \in DOMAIN plan[1].steps |->
        [k |-> plan[1].steps[i].step_id, v |-> plan[1].steps[i].result]]

IsPrefix(s, t) == Len(s) <= Len(t) /\ SubSeq(t, 1, Len(s)) = s

\* C18: the log only grows: every step of the job, the step from verifying
\* back to planning included, leaves the entries already in the log in
\* place and in order, and at most adds entries at the end.
C18_LogAppendOnly == [][IsPrefix(logs, logs')]_vars

\* a rejected first attempt was followed by a second planning, and the log
\* still starts with the first attempt's entries
W_C18_LogAcrossRetry ==
    /\ pc = "L88"
    /\ attempt = 2
    /\ logs[1].message = Msg("Attempt", 1, NULL)
    /\ \E i \in DOMAIN logs : logs[i].message.kind = "Feedback"
    /\ Last(logs).message = Msg("Planning", 0, NULL)

C19_CreateJob_Step ==
    (pc = "idle" /\ pc' # "idle") =>
        /\ ~Falsy(response'.req)
        /\ response'.code = 200
        /\ \E id \in Uuids :
              /\ response'.job_id = id
              /\ getJob(id) = None
              /\ getJob(id)' = Some([topic |-> response'.req, status |-> "queued",
                                     plan |-> None, final_report |-> NULL])
        /\ calls' = <<>>
        /\ rets' = <<>>

C20_NoTopic_Step ==
    (response' # response /\ response'.route = "POST jobs" /\ Falsy(response'.req)) =>
        /\ response'.code = 400
        /\ response'.job_id = NULL
        /\ UNCHANGED <<pc, topic, status, plan, logs, final_report, attempt, feedback,
                       findings, lastFindings, stepIdx, geminiAvailable, layerVars, calls, rets,
                       jobId, subs, trace>>

\* C20: a job-creation request whose topic is empty or missing is answered
\* with status 400 and changes nothing else: no job is stored, no
\* subscriber list is registered and no run is started.
C20_NoTopic == [][C20_NoTopic_Step]_vars

\* a request with an empty topic was rejected and there is still no job
W_C20_Rejected ==
    /\ response = Response("POST jobs", "", 400, NULL)
    /\ pc = "idle"
    /\ jobId = NULL
    /\ getJob("uuid-1") = None
    /\ logs = <<>>

IsLogEv(ev) == ev.event = "log"

\* C16: whenever a subscriber is attached, the log events written to it so
\* far are exactly the entries of the job's log, each once and in log
\* order: those written by the attach itself are the log as it was then,
\* and every entry logged since has been written after them.
C16_EveryLogOnce ==
    \A i \in DOMAIN subs :
        /\ SelectSeq(subs[i].stream, IsLogEv) = [k \in DOMAIN logs |-> LogEv(logs[k])]
        /\ \A k \in 1..subs[i].replayed :
              IsLogEv(subs[i].stream[k])
                 \/ (k = subs[i].replayed /\ subs[i].stream[k].event = "result")

\* a subscriber attached in the middle of the run has received part of the
\* log as replay and the rest live, and the run has ended
W_C16_ReplayThenLive ==
    /\ pc = "done"
    /\ \E i \in DOMAIN subs :
          /\ subs[i].replayed > 2
          /\ subs[i].stream[subs[i].replayed].event = "log"
          /\ \E k \in (subs[i].replayed + 1)..Len(subs[i].stream) :
                subs[i].stream[k].event = "log"

C17_ResultOnAttach_Step ==
    (Len(subs') = Len(subs) + 1 /\ status = "completed") =>
        Last(subs').stream = [k \in DOMAIN logs |-> LogEv(logs[k])] \o <<ResultEv(final_report)>>

\* C17: a subscriber that attaches while the job's status is completed is
\* written the whole log and right after it a result event carrying the
\* job's final_report, ahead of any other event.
C17_ResultOnAttach == [][C17_ResultOnAttach_Step]_vars

\* the events written to subscriber i after its replay
Live(i) == SubSeq(subs[i].stream, subs[i].replayed + 1, Len(subs[i].stream))

\* C15: at every point of the run the events published so far are, in the
\* same order, the first of the changes applied so far (log appends, status
\* changes, report assignments), so that no event is published before its
\* change or after the event of a later change; and what a subscriber has
\* been written since its attach is exactly what was published since, in
\* that order.
C15_EventsInOrder ==
    /\ \A n \in 0..Len(trace) :
          IsPrefix(Pubs(SubSeq(trace, 1, n)), Muts(SubSeq(trace, 1, n)))
    /\ \A i \in DOMAIN subs :
          Live(i) = SubSeq(Pubs(trace), subs[i].publishedBefore + 1, Len(Pubs(trace)))

\* a subscriber attached during the first attempt has been sent log, status
\* and result events live, and the run has ended with every change published
W_C15_LiveLogStatusResult ==
    /\ pc = "done"
    /\ Pubs(trace) = Muts(trace)
    /\ \E i \in DOMAIN subs :
          /\ subs[i].replayed > 0
          /\ \A e \in {"log", "status", "result"} :
                \E k \in DOMAIN Live(i) : Live(i)[k].event = e
          /\ Last(Live(i)).event = "log"

\* the job's status is terminal, its run has ended, and a status event
\* carrying that status has been published
TerminalPublished ==
    /\ pc = "done"
    /\ status \in {"completed", "failed"}
    /\ \E k \in DOMAIN Pubs(trace) : Pubs(trace)[k] = StatusEv(status)

\* C12: if every awaited call ends and runJob is run whenever it can go
\* on, every job that was created eventually has status completed or
\* failed, with that status published as a status event.
C12_ReachesTerminal == (jobId # NULL) ~> TerminalPublished

\* the run has ended through the fallback report after two rejections,
\* and the status completed has been published
W_C12_FallbackPublished ==
    /\ TerminalPublished
    /\ status = "completed"
    /\ attempt = maxRetries
    /\ Last(calls).agent = "reporter"

C21_UnknownId_Step ==
    (/\ response' # response
     /\ response'.route \in {"GET job", "GET events"}
     /\ (jobId = NULL \/ response'.req # jobId)) =>
        /\ response'.code = 404
        /\ UNCHANGED <<pc, topic, status, plan, logs, final_report, attempt, feedback,
                       findings, lastFindings, stepIdx, geminiAvailable, layerVars, calls, rets,
                       jobId, subs, trace>>

CallFailed(c) == c.returned /\ Last(c.requests) # "ok"

\* C22: with Gemini not configured, a verify or synthesize of the router
\* makes one backend call, on Groq, never one on Gemini, and returns
\* exactly what that call returned.
C22_UnconfiguredGoesToGroq ==
    (~geminiAvailable /\ rop \in {"verify", "synthesize"}) =>
        /\ Len(genLog) = 1
        /\ genLog[1].backend = "groq"
        /\ rpc = "done" => (genLog[1].returned /\ rresult = Ok(genLog[1].result))

\* without Gemini, verify has returned the error value of a Groq call that
\* used up its retries
W_C22_GroqErrorReturned ==
    /\ ~geminiAvailable
    /\ rop = "verify"
    /\ rpc = "done"
    /\ genLog[1].requests = <<"rate", "rate", "rate">>
    /\ rresult = Ok(ErrorValue("json", "429 rate limit exceeded"))

C24_PlanExecuteOnGroq ==
    rop \in {"plan", "execute"} =>
        /\ Len(genLog) = 1
        /\ genLog[1].backend = "groq"
        /\ rpc = "done" => (genLog[1].returned /\ rresult = Ok(genLog[1].result))

\* with Gemini configured, plan has returned the error value of a failed
\* Groq call
W_C24_PlanFailedOnGroq ==
    /\ geminiAvailable
    /\ rop = "plan"
    /\ rpc = "done"
    /\ CallFailed(genLog[1])
    /\ IsErrorValue(rresult.val)

C25_FallbackFailurePropagates ==
    geminiAvailable =>
        \A i \in DOMAIN rets :
            (\/ rets[i].agent = "verifier" /\ ~Falsy(rets[i].backend)
             \/ rets[i].agent = "reporter" /\ StartsWithError(rets[i].report)) =>
                rets[i].status = "throw"

\* C27: any two provider requests issued through one backend are at least
\* that backend's minDelay apart, whichever callers issued them.
C27_MinSpacing ==
    \A i, j \in DOMAIN issued :
        (i < j /\ issued[i].backend = issued[j].backend) =>
            issued[j].time - issued[i].time >= minDelay[issued[i].backend]

C28_JobsIndependent_Step ==
    \A b \in JobIds :
        b # actor' =>
            /\ jobs'[b] = jobs[b]
            /\ eventSubscribers'[b] = eventSubscribers[b]

\* C28: a step taken for one job (its creation, a block of its run with
\* the status changes, plan and step updates, log appends, report and
\* events of that block, or a subscription to it) leaves the status, plan,
\* log and final_report of every other job as they were, and writes
\* nothing to the subscribers registered under another job's id.
C28_JobsIndependent == [][C28_JobsIndependent_Step]_vars

\* the first job has just completed while the second, which has a
\* subscriber that has been sent events, is still executing
W_C28_OneCompletesOtherRuns ==
    /\ actor = "uuid-1"
    /\ jobs["uuid-1"] # None
    /\ jobs["uuid-2"] # None
    /\ jobs["uuid-1"][1].status = "completed"
    /\ jobs["uuid-2"][1].status = "executing"
    /\ eventSubscribers["uuid-2"][1] # <<>>
    /\ Len(eventSubscribers["uuid-2"][1][1].stream) > eventSubscribers["uuid-2"][1][1].replayed

\* the job as the Controller and its run hold it
JobOf == <<pc, topic, status, plan, logs, final_report, attempt, feedback, findings,
           lastFindings, stepIdx, calls, rets, jobId, trace>>

C29_DisconnectOnlyStopsEvents_Step ==
    /\ \A i \in DOMAIN subs :
          subs[i].closed => /\ i \in DOMAIN subs'
                            /\ subs'[i].closed
                            /\ subs'[i].stream = subs[i].stream
    /\ (\E i \in DOMAIN subs : ~subs[i].closed /\ i \in DOMAIN subs' /\ subs'[i].closed)
          => /\ JobOf' = JobOf
             /\ \A j \in DOMAIN subs : subs'[j].stream = subs[j].stream

C30_FeedbackNeverEmpty ==
    /\ \A i \in Rejections : ~Falsy(rets[i].feedback)
    /\ \A i \in DOMAIN calls :
          (calls[i].agent = "planner" /\ calls[i].attempt > 1) => ~Falsy(calls[i].feedback)

\* the second planning was called with the generic feedback, the backend
\* having rejected the first attempt without any
W_C30_GenericFeedbackPlanned ==
    /\ calls # <<>>
    /\ Last(calls).agent = "planner"
    /\ Last(calls).attempt = 2
    /\ Last(calls).feedback = GenericFeedback
    /\ Last(rets).agent = "verifier"
    /\ Last(rets).backend = NULL

\* the text that describes the failure of the step whose executor call
\* ended with ret, NULL if its tool and backend did not fail
FailureText(step, ret) ==
    IF step.tool = "web_search"
    THEN IF ret.backend = "Search unavailable." THEN ret.backend ELSE NULL
    ELSE IF step.tool = "scrape_url"
    THEN IF ret.backend \notin {"page text"} THEN ret.backend
         ELSE IF StartsWithError(ret.report) THEN ret.report ELSE NULL
    ELSE IF step.tool \in {"analyze_content", "deep_analyze"}
    THEN IF StartsWithError(ret.report) THEN ret.report ELSE NULL
    ELSE "Unknown tool"

ExecutorReturned == Len(rets') = Len(rets) + 1 /\ Last(rets').agent = "executor"

C31_FailingStepGoesOn_Step ==
    (pc = "L101" /\ ExecutorReturned /\ Last(rets').status # "throw"
       /\ FailureText(plan[1].steps[stepIdx], Last(rets')) # NULL) =>
        LET text == FailureText(plan[1].steps[stepIdx], Last(rets'))
            step == plan'[1].steps[stepIdx] IN
          /\ step.status = "completed"
          /\ step.result = text
          /\ \E i \in DOMAIN findings' : findings'[i].k = step.step_id /\ findings'[i].v = text
          /\ status' = "executing"
          /\ pc' = "L107"

\* C31: when the tool of a step fails (the search or the scrape returns
\* its error text, the backend returns an error text, or the tool is not
\* one executeStep knows), the step becomes completed, that error text is
\* its result and its entry in the findings, the job stays executing and
\* the run goes on to the next step.
C31_FailingStepGoesOn == [][C31_FailingStepGoesOn_Step]_vars

\* C32: once the job is completed or failed, every event stream attached
\* to it is eventually closed
C32_StreamsClosed ==
    \A i \in 1..MaxSubs :
        (status \in {"completed", "failed"} /\ i \in DOMAIN subs) ~> (i \in DOMAIN subs /\ subs[i].closed)

StepStatusEdges == { <<"pending", "active">>, <<"active", "completed">> }

\* the last agent that returned is the verifier, with a pass
PassedLast == rets # <<>> /\ Last(rets).agent = "verifier" /\ Last(rets).status = "pass"

C33_StepStatusForward_Step ==
    /\ (pc = "L88" /\ plan' # plan) =>
          \A i \in DOMAIN plan'[1].steps :
              plan'[1].steps[i].status = "pending" /\ plan'[1].steps[i].result = NULL
    /\ (pc # "L88" /\ plan # None) =>
          /\ DOMAIN plan'[1].steps = DOMAIN plan[1].steps
          /\ \A i \in DOMAIN plan[1].steps :
                \/ plan'[1].steps[i].status = plan[1].steps[i].status
                \/ <<plan[1].steps[i].status, plan'[1].steps[i].status>> \in StepStatusEdges
    /\ (status' = "verifying" \/ (status' = "completed" /\ PassedLast')) =>
          \A i \in DOMAIN plan'[1].steps :
              plan'[1].steps[i].status = "completed" /\ plan'[1].steps[i].result # NULL

KeyedTried == { i \in DOMAIN tried : tried[i].provider \in ProviderNames }

\* C34: webSearch asks only providers whose key is set, in the order
\* Serper, Tavily, Brave and none of them twice; a provider that answered
\* with a non-empty list of results is the last one asked and its text is
\* what webSearch returns; DuckDuckGo is asked only if no provider
\* answered with results, and at most twice; and a call that has ended
\* has returned a non-empty text.
C34_FirstSuccessReturned ==
    /\ \A i \in KeyedTried :
          /\ keys[tried[i].provider]
          /\ \A j \in KeyedTried : i < j => IndexOf(tried[i].provider) < IndexOf(tried[j].provider)
          /\ \A n \in 1..(IndexOf(tried[i].provider) - 1) :
                keys[Providers[n]] => \E j \in KeyedTried : j < i /\ tried[j].provider = Providers[n]
          /\ tried[i].kind = "results" =>
                /\ i = Len(tried)
                /\ spc = "done"
                /\ sresult = Some(tried[i].returned[1])
    /\ \A i \in DOMAIN tried :
          tried[i].provider = "DuckDuckGo" =>
              \A j \in KeyedTried : j < i /\ tried[j].kind # "results"
    /\ Cardinality({ i \in DOMAIN tried : tried[i].provider = "DuckDuckGo" }) <= 2
    /\ spc = "done" => (sresult # None /\ sresult[1] # <<>>)

C35_SubscribersOnlyAdded_Step ==
    /\ Len(subs') >= Len(subs)
    /\ \A i \in DOMAIN subs :
          /\ subs'[i].replayed = subs[i].replayed
          /\ subs'[i].publishedBefore = subs[i].publishedBefore
          /\ subs'[i].handed = subs[i].handed + (Len(Pubs(trace')) - Len(Pubs(trace)))

\* C35: no step takes a response out of the job's subscriber list, which
\* only grows, and every event the job publishes is passed to the write of
\* every response in it, also of one whose client has gone away and also
\* after the job has ended.
C35_SubscribersOnlyAdded == [][C35_SubscribersOnlyAdded_Step]_vars

\* the job has completed; its subscriber had gone away before, is still in
\* the list and has been handed events that were never sent over it
W_C35_HandedAfterClose ==
    /\ pc = "done"
    /\ status = "completed"
    /\ subs # <<>>
    /\ subs[1].closed
    /\ subs[1].handed > Len(subs[1].stream) - subs[1].replayed
    /\ subs[1].handed = Len(Pubs(trace)) - subs[1].publishedBefore

\* how many result events have been written to subscriber i
ResultCount(i) == Cardinality({ k \in DOMAIN subs[i].stream : subs[i].stream[k].event = "result" })

\* C36: no subscriber is ever written two result events; and once the run
\* has ended with the job completed and a non-empty report, every
\* subscriber has been written the result event, carrying that report,
\* exactly once, whether it attached before the completion, after it, or
\* while the job was already completed and the fallback report was still
\* being synthesized.
C36_ResultExactlyOnce ==
    /\ \A i \in DOMAIN subs : ResultCount(i) <= 1
    /\ (pc = "done" /\ status = "completed" /\ ~Falsy(final_report)) =>
          \A i \in DOMAIN subs :
              /\ ResultCount(i) = 1
              /\ \E k \in DOMAIN subs[i].stream : subs[i].stream[k] = ResultEv(final_report)

\* the subscriber attached while the fallback report was being synthesized:
\* its replay ends with the log entry of line 145 and holds no result, and
\* the result reached it as a live event
W_C36_AttachedInWindow ==
    /\ pc = "done"
    /\ status = "completed"
    /\ ~Falsy(final_report)
    /\ subs # <<>>
    /\ subs[1].replayed > 0
    /\ subs[1].stream[subs[1].replayed] = LogEv(LogEntry(Msg("GeneratingReport", 0, NULL), "warning"))
    /\ \E k \in DOMAIN Live(1) : Live(1)[k] = ResultEv(final_report)
    /\ ResultCount(1) = 1

\* subscriber i attached when every event published so far had been published
AttachedLast(i) == subs[i].publishedBefore = Len(Pubs(trace))

\* C37: a failed job's run has ended, and a subscriber that attached after
\* the job failed has been written the replay of the whole log and nothing
\* else: no status event and no result event.
C37_FailedReplayOnly ==
    status = "failed" =>
        /\ pc = "done"
        /\ \A i \in DOMAIN subs :
              AttachedLast(i) =>
                  /\ subs[i].stream = [k \in DOMAIN logs |-> LogEv(logs[k])]
                  /\ \A k \in DOMAIN subs[i].stream : subs[i].stream[k].event = "log"

\* a subscriber attached to a job that had failed in its planning and was
\* sent the log, which ends with the error entry
W_C37_AttachedAfterFailure ==
    /\ status = "failed"
    /\ subs # <<>>
    /\ AttachedLast(1)
    /\ subs[1].replayed = Len(logs)
    /\ Len(subs[1].stream) = Len(logs)
    /\ Last(subs[1].stream).entry.level = "error"
    /\ response.code = 200

\* C38: the run never reaches the end of the retry loop without
\* lastFindings, so the branch that fails the job with the entry
\* 'Research failed.' is never taken, also after attempts whose plans had
\* no steps; a job is failed only by the catch block, whose error entry is
\* then the last of its log.
C38_FailedOnlyByThrow ==
    /\ pc = "L144" => lastFindings # None
    /\ \A k \in DOMAIN logs : logs[k].message.kind # "ResearchFailed"
    /\ status = "failed" =>
          /\ Last(logs).message.kind = "Error"
          /\ Last(logs).level = "error"
          /\ \E i \in DOMAIN rets : rets[i].error # NULL /\ Last(logs).message.text = rets[i].error

\* the retry loop has ended after two rejected attempts whose plans had no
\* steps: lastFindings is the empty object
W_C38_EmptyFindingsAfterLoop ==
    /\ pc = "L144"
    /\ attempt = maxRetries
    /\ lastFindings = Some(<<>>)
    /\ Cardinality(Rejections) = maxRetries
    /\ Count("executor", calls) = 0

\* the planner call that ended in this step threw, in a retry attempt
PlannerThrewInRetry ==
    /\ Threw
    /\ Last(rets').agent = "planner"
    /\ Last(rets').attempt >= 2

C39_PlannerFailsInRetry_Step ==
    PlannerThrewInRetry =>
        /\ status' = "failed"
        /\ pc' = "done"
        /\ final_report' = NULL
        /\ Count("reporter", calls') = 0
        /\ lastFindings' # None
        /\ plan' = plan
        /\ plan' # None
        /\ \A i \in DOMAIN plan'[1].steps :
              /\ plan'[1].steps[i].status = "completed"
              /\ [k |-> plan'[1].steps[i].step_id, v |-> plan'[1].steps[i].result]
                    \in { lastFindings'[1][n] : n \in DOMAIN lastFindings'[1] }

\* C39: when the planner throws in an attempt after the first, the job
\* ends failed without a report and without a call of the reporter, though
\* the findings of the attempt before are at hand; job.plan is still the
\* plan of that attempt, every step of it completed with its result in
\* those findings.
C39_PlannerFailsInRetry == [][C39_PlannerFailsInRetry_Step]_vars

\* the job failed in the planning of its second attempt, after a first
\* attempt that had gathered findings
W_C39_FailedWithFindings ==
    /\ pc = "done"
    /\ status = "failed"
    /\ final_report = NULL
    /\ attempt = 2
    /\ Last(rets).agent = "planner"
    /\ Last(rets).error # NULL
    /\ lastFindings # None
    /\ lastFindings[1] # <<>>
    /\ plan[1].steps # <<>>

\* the reporter call that ended in this step returned an error text: the
\* text of Groq, Gemini being not configured or having failed as well
ReporterGotErrorText ==
    /\ Len(rets') = Len(rets) + 1
    /\ Last(rets').agent = "reporter"
    /\ StartsWithError(Last(rets').report)

C40_ErrorTextBecomesReport_Step ==
    ReporterGotErrorText =>
        /\ Cardinality(Rejections) = maxRetries
        /\ status = "completed"
        /\ status' = "completed"
        /\ pc' = "done"
        /\ final_report' = Last(rets').report
        /\ Last(logs').level # "error"
        /\ Last(Pubs(trace')) = LogEv(Last(logs'))
        /\ \E k \in (Len(Pubs(trace)) + 1)..Len(Pubs(trace')) :
              Pubs(trace')[k] = ResultEv(final_report')

\* C40: when, after the retries are used up, every backend call of the
\* report synthesis fails, the reporter returns Groq's error text as its
\* report: the job stays completed and its run ends, final_report is that
\* error text, and a result event carrying it is published; no error entry
\* is logged.
C40_ErrorTextBecomesReport == [][C40_ErrorTextBecomesReport_Step]_vars

\* the job has ended completed with the backend's error text as its report
W_C40_CompletedWithErrorText ==
    /\ pc = "done"
    /\ status = "completed"
    /\ final_report = "Error: 429 rate limit exceeded"
    /\ Last(rets).agent = "reporter"
    /\ \E k \in DOMAIN Pubs(trace) : Pubs(trace)[k] = ResultEv(final_report)

====
